---- MODULE Spec2Model ----
(***************************************************************************)
(* Model of the fire-dispatch scraper: the change detector                 *)
(* (src/utils/changeDetection.ts), the alarm persistence service           *)
(* (src/unnamed/part_000) and the scan cycle of the scraper                 *)
(* (src/scraper/alarmScraper.ts).                                          *)
(*                                                                         *)
(* JavaScript values are modelled as strings: Undefined and Null stand for *)
(* the values undefined and null, "" is the empty string.  Timestamps are  *)
(* the value of a logical clock that advances once per scan cycle; the     *)
(* timestamp 0 stands for SQL NULL in deassigned_at.                       *)
(***************************************************************************)
EXTENDS Integers, Sequences, FiniteSets, TLC

VARIABLES
    dArgs,        \* arguments of the detectChanges call under test
    dResult       \* its result, NoResult before the call

detectVars == <<dArgs, dResult>>

VARIABLES
    alarms,          \* table alarms: sequence of rows, id = index
    rows,            \* table units_assigned: sequence of rows, id = index
    tasks,           \* ids of alarms whose transformAndUpdateNotes task is in flight
    now,             \* the clock
    board,           \* the dispatch page: dcid -> element
    pc,              \* position of scrapeAlarms: "idle", "cleared", "elements",
                     \* "removed", "done"
    dbActiveAlarms,  \* scrapeAlarms: result of getActiveAlarms
    alarmElements,   \* scrapeAlarms: captured elements (their dcids), in page order
    idx,             \* scrapeAlarms: loop index into alarmElements / removedAlarms
    scrapedDcids,    \* scrapeAlarms: dcids seen in this cycle
    removedAlarms,   \* scrapeAlarms: alarms in the database but not on the page
    pre,             \* history: the tables when the cycle started
    ops,             \* history: persistence mutations issued by this cycle
    failed,          \* history: the dcids for which a persistence call of this
                     \* cycle failed ("getActiveAlarms" for the initial read,
                     \* "page.goto" for the page that could not be loaded)
    extracted,       \* history: dcids whose element was extracted in this cycle
    sameAsPrev,      \* history: the board equals the one the previous cycle
                     \* captured and persisted without any failure
    faults,          \* history: number of faults so far
    escaped          \* history: the errors that left scrapeAlarms or a detached
                     \* task without being handled

VARIABLES
    time,            \* Date.now(), in ms
    breaker,         \* CircuitBreaker: state, failureCount, lastFailureTime
    running,         \* callers whose operation is awaited by executeWithCircuitBreaker
    invoked,         \* history: number of operations invoked through the breaker
    lastEvent        \* history: the last thing the breaker did

breakerVars == <<breaker, running, invoked, lastEvent>>

VARIABLES
    requestTimestamps,  \* RateLimiter: the timestamps of the permissions given
    sleeping,           \* callers suspended in waitForPermission: caller -> wake time
    grants,             \* history: every timestamp ever recorded by the limiter
    lastWait            \* history: caller -> its last waitForPermission call

limiterVars == <<requestTimestamps, sleeping, grants, lastWait>>

VARIABLES
    cfg,    \* config.openai: maxRetries, initialBackoffMs
    transformCalls   \* OpenAIService: caller -> its call of transformCallerNotes

transformVars == <<cfg, transformCalls>>
svcVars == <<time, breakerVars, limiterVars, transformVars>>

VARIABLES
    main    \* the monitoring loop of main: its position, the scrapeAlarms
            \* invocations in progress, the deadline of its sleep, and the
            \* history of when scrapeAlarms last started and last ended

loopVars == <<main>>

VARIABLES
    unitService,  \* UnitService: knownUnits, and the history of its registry
                  \* queries (their number, how the load ended)
    identify,     \* the identifyExternalUnits call: its position, argument and result
    domLines,     \* extractUnitsFromDOM: the texts of the p.ui-li-desc elements
    domUnits      \* its result, NoUnits before the call

unitVars == <<unitService, identify>>
domVars == <<domLines, domUnits>>
benchVars == <<unitVars, domVars>>

dbVars == <<alarms, rows, tasks>>
cycleVars == <<now, board, pc, dbActiveAlarms, alarmElements, idx, scrapedDcids,
               removedAlarms>>
histVars == <<pre, ops, failed, extracted, sameAsPrev, faults, escaped>>
scanVars == <<dbVars, cycleVars, histVars>>
vars == <<detectVars, scanVars, svcVars, loopVars, benchVars>>

----------------------------------------------------------------------------
(* JavaScript values *)

Undefined == "undefined"
Null == "null"

\* variant: the empty string is taken as present
TruthyNoEmptyCheck(v) == v \notin {Undefined, Null}

\* `if (v)` on a string-or-absent value
Truthy(v) == v \notin {Undefined, Null, ""}

\* Array.prototype.includes
Includes(arr, x) == \E i \in 1..Len(arr) : arr[i] = x

Range(arr) == {arr[i] : i \in 1..Len(arr)}

----------------------------------------------------------------------------
(* changeDetection.ts *)

\* `current.f && current.f !== existing.f`
FieldChanged(cur, ex) == Truthy(cur) /\ cur # ex

\* variant: the filter is lost
UnitsAddedAll(existingUnits, currentUnits) == currentUnits

\* currentUnits.filter(unit => !existingUnits.includes(unit))
UnitsAdded(existingUnits, currentUnits) ==
    SelectSeq(currentUnits, LAMBDA unit : ~Includes(existingUnits, unit))

\* existingUnits.filter(unit => !currentUnits.includes(unit))
UnitsRemoved(existingUnits, currentUnits) ==
    SelectSeq(existingUnits, LAMBDA unit : ~Includes(currentUnits, unit))

\* variant: the removed units are not looked at
AnyChangeIgnoringRemoved(c) ==
    \/ c.callTypeChanged
    \/ c.addressChanged
    \/ c.notesChanged
    \/ c.timelineChanged
    \/ Len(c.unitsChanged.added) > 0

AnyChange(c) ==
    \/ c.callTypeChanged
    \/ c.addressChanged
    \/ c.notesChanged
    \/ c.timelineChanged
    \/ Len(c.unitsChanged.added) > 0
    \/ Len(c.unitsChanged.removed) > 0

detectChanges(existing, current, existingUnits, currentUnits) ==
    LET flags == [callTypeChanged |-> FieldChanged(current.alarm_type, existing.alarm_type),
                  addressChanged  |-> FieldChanged(current.address, existing.address),
                  notesChanged    |-> FieldChanged(current.call_notes, existing.call_notes),
                  timelineChanged |-> FieldChanged(current.call_timeline, existing.call_timeline),
                  unitsChanged    |-> [added   |-> UnitsAdded(existingUnits, currentUnits),
                                       removed |-> UnitsRemoved(existingUnits, currentUnits)]]
    IN  [callTypeChanged |-> flags.callTypeChanged,
         addressChanged  |-> flags.addressChanged,
         notesChanged    |-> flags.notesChanged,
         timelineChanged |-> flags.timelineChanged,
         unitsChanged    |-> flags.unitsChanged,
         hasAnyChanges   |-> AnyChange(flags)]

----------------------------------------------------------------------------
(* Inputs of the detectChanges test bench *)

MaxUnitLen == 2

UnitIds == {"E1", "L2"}

UnitLists == UNION {[1..n -> UnitIds] : n \in 0..MaxUnitLen}

\* values an incoming (Partial<Alarm>) field can take
IncomingValues == {Undefined, Null, "", "a", "b"}

\* the scalar part of a persisted alarm row
ExistingAlarms ==
    { [alarm_type |-> "a", address |-> "a", call_notes |-> "a", call_timeline |-> "a"],
      [alarm_type |-> "b", address |-> "a", call_notes |-> Null, call_timeline |-> Null],
      [alarm_type |-> "a", address |-> "b", call_notes |-> "b", call_timeline |-> Null] }

IncomingAlarms ==
    [alarm_type : IncomingValues, address : IncomingValues,
     call_notes : IncomingValues, call_timeline : IncomingValues]

NoResult == [hasAnyChanges |-> "none"]

----------------------------------------------------------------------------
(* The store: tables alarms, units_assigned and units *)

\* scan cycles per run, and faults (failing persistence calls, detached page
\* elements) per run
MaxCycles == 3
MaxFaults == 1

\* deassigned_at IS NULL
NullTime == 0

\* the units table (the known-unit registry)
KnownUnits == {"E1"}

NoAlarm == [id |-> 0]

\* a column written from an undefined property is stored as NULL
ToDb(v) == IF v = Undefined THEN Null ELSE v

IsActive(r) == r.deassigned_at = NullTime

UnitIdsOf(rs) == [i \in 1..Len(rs) |-> rs[i].unit_id]

\* select unit_id from units_assigned where alarm_id = .. and deassigned_at is null;
\* an error yields []
getActiveUnits(rs, alarmId, fail) ==
    IF fail THEN <<>>
    ELSE UnitIdsOf(SelectSeq(rs, LAMBDA r : r.alarm_id = alarmId /\ IsActive(r)))

\* select * from alarms where dcid = .. , .single(): an error, no row and more
\* than one row all yield null
getAlarmByDcid(as, dcid, fail) ==
    LET hits == {i \in 1..Len(as) : as[i].dcid = dcid}
    IN  IF fail \/ Cardinality(hits) # 1 THEN NoAlarm
        ELSE as[CHOOSE i \in hits : TRUE]

\* the lookup of a persisted dcid came back with an error
LookupFailed(as, dcid, fail) ==
    LET hits == {i \in 1..Len(as) : as[i].dcid = dcid}
    IN  (fail /\ hits # {}) \/ Cardinality(hits) > 1

\* update units_assigned set deassigned_at = now where alarm_id = .. and unit_id in (..)
DeactivateRows(rs, alarmId, units, t) ==
    [i \in 1..Len(rs) |->
        IF rs[i].alarm_id = alarmId /\ Includes(units, rs[i].unit_id)
        THEN [rs[i] EXCEPT !.deassigned_at = t] ELSE rs[i]]

\* update units_assigned set assigned_at = now, deassigned_at = null
\* where alarm_id = .. and unit_id in (..)
ReactivateRows(rs, alarmId, units, t) ==
    [i \in 1..Len(rs) |->
        IF rs[i].alarm_id = alarmId /\ Includes(units, rs[i].unit_id)
        THEN [rs[i] EXCEPT !.assigned_at = t, !.deassigned_at = NullTime] ELSE rs[i]]

\* is_external: !knownUnitIds.has(unitId)
IsExternal(knownUnitIds, unitId) == unitId \notin knownUnitIds

\* units.map(unitId => ({alarm_id, unit_id, assigned_at: now, is_external}))
NewAssignments(alarmId, units, knownUnitIds, t) ==
    [i \in 1..Len(units) |->
        [alarm_id |-> alarmId, unit_id |-> units[i], assigned_at |-> t,
         deassigned_at |-> NullTime,
         is_external |-> IsExternal(knownUnitIds, units[i])]]

\* select unit_id from units where unit_id in (..); an error leaves data undefined
KnownUnitIds(units, fail) == IF fail THEN {} ELSE KnownUnits \cap Range(units)

\* Result of a service call: the tables, the mutations issued, the calls made
\* and the value returned.
Result(as, rs, issued, made, value) ==
    [alarms |-> as, rows |-> rs, ops |-> issued, made |-> made, value |-> value,
     spawned |-> {}]

\* variant: only the insertion of the added units is kept
updateUnitAssignmentsNoClose(as, rs, alarmId, currentUnits, F, t) ==
    LET existingUnits == getActiveUnits(rs, alarmId, "uua.getActiveUnits" \in F)
        unitsToAdd == UnitsAdded(existingUnits, currentUnits)
        knownUnitIds == KnownUnitIds(currentUnits, "uua.units" \in F)
        doInsert == Len(unitsToAdd) > 0
        rs1 == IF doInsert /\ "uua.insert" \notin F
               THEN rs \o NewAssignments(alarmId, unitsToAdd, knownUnitIds, t) ELSE rs
    IN  Result(as, rs1,
               IF doInsert THEN {<<"insert", alarmId>>} ELSE {},
               {"uua.getActiveUnits", "uua.units"}
                   \cup (IF doInsert THEN {"uua.insert"} ELSE {}),
               TRUE)

\* AlarmService.updateUnitAssignments (F: the calls that fail)
updateUnitAssignments(as, rs, alarmId, currentUnits, F, t) ==
    LET existingUnits == getActiveUnits(rs, alarmId, "uua.getActiveUnits" \in F)
        unitsToDeactivate == UnitsRemoved(existingUnits, currentUnits)
        unitsToAdd == UnitsAdded(existingUnits, currentUnits)
        knownUnitIds == KnownUnitIds(currentUnits, "uua.units" \in F)
        doDeactivate == Len(unitsToDeactivate) > 0
        rs1 == IF doDeactivate /\ "uua.deactivate" \notin F
               THEN DeactivateRows(rs, alarmId, unitsToDeactivate, t) ELSE rs
        doAdd == Len(unitsToAdd) > 0
        \* rows of the units to add that carry a deassigned_at
        existingAssignments ==
            IF "uua.check" \in F THEN <<>>
            ELSE UnitIdsOf(SelectSeq(rs1, LAMBDA r :
                     /\ r.alarm_id = alarmId
                     /\ Includes(unitsToAdd, r.unit_id)
                     /\ ~IsActive(r)))
        unitsToReactivate == existingAssignments
        unitsToCreate ==
            SelectSeq(unitsToAdd, LAMBDA unit : ~Includes(unitsToReactivate, unit))
        doReactivate == doAdd /\ Len(unitsToReactivate) > 0
        rs2 == IF doReactivate /\ "uua.reactivate" \notin F
               THEN ReactivateRows(rs1, alarmId, unitsToReactivate, t) ELSE rs1
        doInsert == doAdd /\ Len(unitsToCreate) > 0
        rs3 == IF doInsert /\ "uua.insert" \notin F
               THEN rs2 \o NewAssignments(alarmId, unitsToCreate, knownUnitIds, t)
               ELSE rs2
    IN  Result(as, rs3,
               (IF doDeactivate THEN {<<"deactivate", alarmId>>} ELSE {})
                   \cup (IF doReactivate THEN {<<"reactivate", alarmId>>} ELSE {})
                   \cup (IF doInsert THEN {<<"insert", alarmId>>} ELSE {}),
               {"uua.getActiveUnits", "uua.units"}
                   \cup (IF doDeactivate THEN {"uua.deactivate"} ELSE {})
                   \cup (IF doAdd THEN {"uua.check"} ELSE {})
                   \cup (IF doReactivate THEN {"uua.reactivate"} ELSE {})
                   \cup (IF doInsert THEN {"uua.insert"} ELSE {}),
               TRUE)

\* AlarmService.createUnitAssignments
createUnitAssignments(as, rs, alarmId, units, F, t) ==
    LET knownUnitIds == KnownUnitIds(units, "cua.units" \in F)
        rs1 == IF "cua.insert" \notin F
               THEN rs \o NewAssignments(alarmId, units, knownUnitIds, t) ELSE rs
    IN  Result(as, rs1, {<<"insert", alarmId>>}, {"cua.units", "cua.insert"}, TRUE)

\* update alarms set .. where id = ..
ApplyUpdates(a, updates) ==
    [f \in DOMAIN a |->
        IF f \notin DOMAIN updates THEN a[f]
        ELSE IF f = "last_updated" THEN updates[f] ELSE ToDb(updates[f])]

\* variant: the update has no filter on the id
updateAlarmEveryRow(as, rs, id, updates, F) ==
    Result(IF "updateAlarm" \in F THEN as
           ELSE [i \in 1..Len(as) |-> ApplyUpdates(as[i], updates)],
           rs, {<<"updateAlarm", id>>}, {"updateAlarm"}, "updateAlarm" \notin F)

\* AlarmService.updateAlarm
updateAlarm(as, rs, id, updates, F) ==
    Result(IF "updateAlarm" \in F THEN as
           ELSE [as EXCEPT ![id] = ApplyUpdates(as[id], updates)],
           rs, {<<"updateAlarm", id>>}, {"updateAlarm"}, "updateAlarm" \notin F)

\* variant: createAlarm awaits the transformation and stores its result
createAlarmAwaitsNotes(as, rs, alarm, F) ==
    IF "createAlarm" \in F
    THEN Result(as, rs, {<<"createAlarm", 0>>}, {"createAlarm"}, 0)
    ELSE LET id == Len(as) + 1
         IN  Result(Append(as, [id |-> id,
                               dcid |-> alarm.dcid,
                               address |-> alarm.address,
                               alarm_timestamp |-> alarm.alarm_timestamp,
                               alarm_type |-> alarm.alarm_type,
                               call_notes |-> ToDb(alarm.call_notes),
                               call_ai_notes |-> IF Truthy(alarm.call_notes)
                                                 THEN "AI notes" ELSE Null,
                               call_timeline |-> ToDb(alarm.call_timeline),
                               last_updated |-> alarm.last_updated]),
                    rs, {<<"createAlarm", id>>}, {"createAlarm"}, id)

\* AlarmService.createAlarm: insert into alarms; value: the new id, or 0 for null
createAlarm(as, rs, alarm, F) ==
    IF "createAlarm" \in F
    THEN Result(as, rs, {<<"createAlarm", 0>>}, {"createAlarm"}, 0)
    ELSE LET id == Len(as) + 1
         IN  [Result(Append(as, [id |-> id,
                                dcid |-> alarm.dcid,
                                address |-> alarm.address,
                                alarm_timestamp |-> alarm.alarm_timestamp,
                                alarm_type |-> alarm.alarm_type,
                                call_notes |-> ToDb(alarm.call_notes),
                                call_ai_notes |-> Null,
                                call_timeline |-> ToDb(alarm.call_timeline),
                                last_updated |-> alarm.last_updated]),
                    rs, {<<"createAlarm", id>>}, {"createAlarm"}, id)
              \* the detached transformAndUpdateNotes task
              EXCEPT !.spawned = IF Truthy(alarm.call_notes) THEN {id} ELSE {}]

\* variant: the update filters on the rows that already carry a deassigned_at
deassignAllUnitsWrongFilter(as, rs, alarmId, F, t) ==
    LET activeUnits == getActiveUnits(rs, alarmId, FALSE)
    IN  IF "dau.check" \in F THEN Result(as, rs, {}, {"dau.check"}, FALSE)
        ELSE IF Len(activeUnits) = 0 THEN Result(as, rs, {}, {"dau.check"}, TRUE)
        ELSE IF "dau.update" \in F
             THEN Result(as, rs, {<<"deassignAll", alarmId>>},
                         {"dau.check", "dau.update"}, FALSE)
        ELSE Result(as,
                    [i \in 1..Len(rs) |->
                        IF rs[i].alarm_id = alarmId /\ ~IsActive(rs[i])
                        THEN [rs[i] EXCEPT !.deassigned_at = t] ELSE rs[i]],
                    {<<"deassignAll", alarmId>>}, {"dau.check", "dau.update"}, TRUE)

\* AlarmService.deassignAllUnits; value: success
deassignAllUnits(as, rs, alarmId, F, t) ==
    LET activeUnits == getActiveUnits(rs, alarmId, FALSE)
    IN  IF "dau.check" \in F THEN Result(as, rs, {}, {"dau.check"}, FALSE)
        ELSE IF Len(activeUnits) = 0 THEN Result(as, rs, {}, {"dau.check"}, TRUE)
        ELSE IF "dau.update" \in F
             THEN Result(as, rs, {<<"deassignAll", alarmId>>},
                         {"dau.check", "dau.update"}, FALSE)
        ELSE Result(as,
                    [i \in 1..Len(rs) |->
                        IF rs[i].alarm_id = alarmId /\ IsActive(rs[i])
                        THEN [rs[i] EXCEPT !.deassigned_at = t] ELSE rs[i]],
                    {<<"deassignAll", alarmId>>}, {"dau.check", "dau.update"}, TRUE)

\* AlarmService.getActiveAlarms: the alarms of the view alarm_details whose
\* current_units is not empty; an error yields []
getActiveAlarms(as, rs, fail) ==
    IF fail THEN <<>>
    ELSE LET act == SelectSeq(as, LAMBDA a : \E i \in 1..Len(rs) :
                                  rs[i].alarm_id = a.id /\ IsActive(rs[i]))
         IN  [i \in 1..Len(act) |-> [id |-> act[i].id, dcid |-> act[i].dcid]]

----------------------------------------------------------------------------
(* The dispatch page *)

DCIDs == {"101", "102"}

\* the text of one list element of the page; "" is a missing sub-element,
\* Undefined a detail the detail page does not give
Full ==
    [address |-> "Main St", received |-> "10:00", callType |-> "Fire",
     notes |-> "Call Notes: smoke", timeline |-> "10:01 disp"]

Bare ==
    [address |-> "", received |-> "", callType |-> "",
     notes |-> Undefined, timeline |-> Undefined]

Element(s, u) ==
    [present |-> TRUE, address |-> s.address, received |-> s.received,
     callType |-> s.callType, notes |-> s.notes, timeline |-> s.timeline,
     units |-> u]

NoElement == [present |-> FALSE]

\* alarm 101 as the page shows it over its life: dispatched with one unit, a
\* second unit added, the texts gone from the page and the unit line repeated
Elements101 ==
    { Element(Full, <<"E1">>),
      Element(Full, <<"E1", "L2">>),
      Element(Bare, <<"E1", "E1">>) }

Element102 ==
    Element([address |-> "Oak Ave", received |-> "11:00", callType |-> "EMS",
             notes |-> Undefined, timeline |-> Undefined], <<"L2">>)

Page(e101, e102) == [d \in DCIDs |-> IF d = "101" THEN e101 ELSE e102]

\* the pages a cycle can find
Boards ==
    {Page(NoElement, NoElement), Page(Element(Full, <<"E1">>), Element102)}
        \cup {Page(e, NoElement) : e \in Elements101}

\* page.$$('#openCalls li...'): the elements of the page, in page order
Capture(b) ==
    (IF b["101"].present THEN <<"101">> ELSE <<>>)
        \o (IF b["102"].present THEN <<"102">> ELSE <<>>)

----------------------------------------------------------------------------
(* alarmScraper.ts *)

Nothing(as, rs) == Result(as, rs, {}, {}, TRUE)

\* r1 followed by r2, which ran on r1's tables
Seq2(r1, r2) ==
    [r2 EXCEPT !.ops = r1.ops \cup r2.ops, !.made = r1.made \cup r2.made,
               !.spawned = r1.spawned \cup r2.spawned]

\* the fields of the alarm the page gives (extractAlarm, lines 255-320)
ExtractedData(el, dcid, t) ==
    [dcid |-> dcid,
     address |-> IF el.address = "" THEN "Unknown Address" ELSE el.address,
     alarm_timestamp |-> IF el.received = "" THEN ToString(t) ELSE el.received,
     alarm_type |-> IF el.callType = "" THEN "Unknown" ELSE el.callType,
     call_notes |-> IF Truthy(el.notes) THEN el.notes ELSE Undefined,
     call_timeline |-> IF Truthy(el.timeline) THEN el.timeline ELSE Undefined,
     last_updated |-> t]

\* variant: every scalar field is written when one of them changed
UpdatesAllFields(changes, newData, t) ==
    [f \in {"last_updated", "alarm_type", "address", "call_notes", "call_timeline"}
        |-> IF f = "last_updated" THEN t ELSE newData[f]]

\* variant: a change of the notes also rewrites the enriched notes
UpdatesWithAiNotes(changes, newData, t) ==
    LET fields == {"last_updated"}
                    \cup (IF changes.callTypeChanged THEN {"alarm_type"} ELSE {})
                    \cup (IF changes.addressChanged THEN {"address"} ELSE {})
                    \cup (IF changes.notesChanged THEN {"call_notes", "call_ai_notes"}
                          ELSE {})
                    \cup (IF changes.timelineChanged THEN {"call_timeline"} ELSE {})
    IN  [f \in fields |-> IF f = "last_updated" THEN t
                          ELSE IF f = "call_ai_notes" THEN newData.call_notes
                          ELSE newData[f]]

\* the `updates` object of handleExistingAlarm
Updates(changes, newData, t) ==
    LET fields == {"last_updated"}
                    \cup (IF changes.callTypeChanged THEN {"alarm_type"} ELSE {})
                    \cup (IF changes.addressChanged THEN {"address"} ELSE {})
                    \cup (IF changes.notesChanged THEN {"call_notes"} ELSE {})
                    \cup (IF changes.timelineChanged THEN {"call_timeline"} ELSE {})
    IN  [f \in fields |-> IF f = "last_updated" THEN t ELSE newData[f]]

ScalarChanged(changes) ==
    \/ changes.callTypeChanged
    \/ changes.addressChanged
    \/ changes.notesChanged
    \/ changes.timelineChanged

\* variant: removed units alone are no change
UnitsChangedAddedOnly(changes) == Len(changes.unitsChanged.added) > 0

UnitsChanged(changes) ==
    Len(changes.unitsChanged.added) > 0 \/ Len(changes.unitsChanged.removed) > 0

handleExistingAlarm(as, rs, existingAlarm, newData, units, F, t) ==
    LET activeUnits == getActiveUnits(rs, existingAlarm.id, "hea.getActiveUnits" \in F)
        changes == detectChanges(existingAlarm, newData, activeUnits, units)
        r0 == Result(as, rs, {}, {"hea.getActiveUnits"}, TRUE)
        r1 == IF changes.hasAnyChanges /\ ScalarChanged(changes)
              THEN Seq2(r0, updateAlarm(as, rs, existingAlarm.id,
                                        Updates(changes, newData, t), F))
              ELSE r0
        r2 == IF changes.hasAnyChanges /\ UnitsChanged(changes)
              THEN Seq2(r1, updateUnitAssignments(r1.alarms, r1.rows,
                                                  existingAlarm.id, units, F, t))
              ELSE r1
    IN  [r2 EXCEPT !.value = TRUE]

\* extractAlarm; attached: the element is on the page and its dcid can be
\* read; value: whether it returned an alarm (and not null)
extractAlarm(as, rs, dcid, el, attached, F, t) ==
    IF ~attached THEN [Nothing(as, rs) EXCEPT !.value = FALSE]
    ELSE
    LET data == ExtractedData(el, dcid, t)
        units == el.units
        existingAlarm == getAlarmByDcid(as, dcid, "getAlarmByDcid" \in F)
        r0 == Result(as, rs, {}, {"getAlarmByDcid"}, TRUE)
    IN  IF existingAlarm # NoAlarm
        THEN Seq2(r0, handleExistingAlarm(as, rs, existingAlarm,
                          [address |-> data.address, alarm_type |-> data.alarm_type,
                           call_notes |-> data.call_notes,
                           call_timeline |-> data.call_timeline],
                          units, F, t))
        ELSE LET r1 == Seq2(r0, createAlarm(as, rs, data, F))
                 alarmId == r1.value
             IN  IF alarmId = 0 THEN [r1 EXCEPT !.value = FALSE]
                 ELSE IF Len(units) > 0
                      THEN [Seq2(r1, createUnitAssignments(r1.alarms, r1.rows, alarmId,
                                                           units, F, t))
                            EXCEPT !.value = TRUE]
                      ELSE [r1 EXCEPT !.value = TRUE]

\* the states in which extractAlarm finds an element: attached with its link,
\* detached from the page (lines 229-236), or without a link from which the
\* dcid can be read (lines 239-252)
ElementStates == {"ok", "detached", "nolink"}

\* variant: scrapeAlarms has no try/catch of its own
CaughtByNoCycleHandler(site) ==
    CASE site = "page.goto" -> "none"
      [] site = "detached" -> "extractAlarm"
      [] site = "nolink" -> "extractAlarm"
      [] site = "enrichment" -> "transformCallerNotes"
      [] site = "task.update" -> "transformAndUpdateNotes"
      [] OTHER -> "AlarmService"

\* the innermost handler around the place where an error is raised: the outer
\* try/catch of scrapeAlarms (489-491) for the page, the .catch of evaluate
\* (231) and the try/catch of extractAlarm (365-368) for an element, the
\* catch of the retry loop for the enrichment request, the error branch of
\* transformAndUpdateNotes for its update, and the error branch or try/catch
\* of the AlarmService method for every persistence call
CaughtBy(site) ==
    CASE site = "page.goto" -> "scrapeAlarms"
      [] site = "detached" -> "extractAlarm"
      [] site = "nolink" -> "extractAlarm"
      [] site = "enrichment" -> "transformCallerNotes"
      [] site = "task.update" -> "transformAndUpdateNotes"
      [] OTHER -> "AlarmService"

\* the errors raised at these places that no handler catches
Escaping(sites) == {site \in sites : CaughtBy(site) = "none"}

\* processRemovedAlarm
processRemovedAlarm(as, rs, alarm, F, t) ==
    LET activeUnits == getActiveUnits(rs, alarm.id, "pra.getActiveUnits" \in F)
        r0 == Result(as, rs, {}, {"pra.getActiveUnits"}, TRUE)
    IN  IF Len(activeUnits) = 0 THEN r0
        ELSE Seq2(r0, deassignAllUnits(as, rs, alarm.id, F, t))

\* variant: the negation of the filter is lost
RemovedAlarmsInverted(active, scraped) ==
    SelectSeq(active, LAMBDA alarm : Includes(scraped, alarm.dcid))

\* dbActiveAlarms.filter(alarm => !scrapedDcids.includes(alarm.dcid))
RemovedAlarms(active, scraped) ==
    SelectSeq(active, LAMBDA alarm : ~Includes(scraped, alarm.dcid))

----------------------------------------------------------------------------
(* services/openaiService.ts: CircuitBreaker *)

FailureThreshold == 5
ResetTimeoutMs == 60000

BreakerInit == [state |-> "CLOSED", failureCount |-> 0, lastFailureTime |-> 0]

\* executeWithCircuitBreaker, lines 244-254: the call is answered by the
\* fallback without the operation being tried
FastFail(cb, t) == cb.state = "OPEN" /\ ~(t - cb.lastFailureTime >= ResetTimeoutMs)

\* executeWithCircuitBreaker, lines 244-254: the breaker after the test of OPEN
EnterBreaker(cb, t) ==
    IF cb.state = "OPEN" /\ t - cb.lastFailureTime >= ResetTimeoutMs
    THEN [cb EXCEPT !.state = "HALF_OPEN"]
    ELSE cb

recordFailure(cb, t) ==
    [cb EXCEPT !.failureCount = @ + 1, !.lastFailureTime = t]

openCircuit(cb) == [cb EXCEPT !.state = "OPEN"]

\* variant: the failure count is kept
closeCircuitKeepCount(cb) == [cb EXCEPT !.state = "CLOSED"]

closeCircuit(cb) == [cb EXCEPT !.state = "CLOSED", !.failureCount = 0]

\* variant: every success closes the circuit and clears the count
OperationResolvedResets(cb) == closeCircuit(cb)

\* variant: the end of the operation is counted as a failure
OperationResolvedAsFailure(cb) ==
    LET cb1 == [cb EXCEPT !.failureCount = @ + 1]
    IN  IF cb1.state = "CLOSED" THEN openCircuit(cb1) ELSE cb1

\* executeWithCircuitBreaker, lines 258-265: the operation resolved
OperationResolved(cb) ==
    IF cb.state = "HALF_OPEN" THEN closeCircuit(cb) ELSE cb

\* executeWithCircuitBreaker, lines 266-277: the operation rejected
OperationRejected(cb, t) ==
    LET cb1 == recordFailure(cb, t)
    IN  IF cb1.state = "CLOSED" /\ cb1.failureCount >= FailureThreshold
        THEN openCircuit(cb1)
        ELSE cb1

----------------------------------------------------------------------------
(* utils/logger.ts: RateLimiter *)

RequestsPerMinute == 2
WindowMs == 60000
BufferMs == 100

Callers == {"c1", "c2"}

\* requestTimestamps.filter(timestamp => now - timestamp < 60000)
Pruned(ts, t) == SelectSeq(ts, LAMBDA timestamp : t - timestamp < WindowMs)

\* variant: the wait is counted from the newest timestamp
WaitTimeFromNewest(ts, t) == WindowMs - (t - ts[Len(ts)]) + BufferMs

\* 60000 - (now - oldestRequest) + 100
WaitTime(ts, t) == WindowMs - (t - ts[1]) + BufferMs

\* waitForPermission suspends the caller
MustWait(ts, t) ==
    /\ Len(Pruned(ts, t)) >= RequestsPerMinute
    /\ WaitTime(Pruned(ts, t), t) > 0

NoWait == [seen |-> <<>>, calledAt |-> 0, suspended |-> FALSE, wakeAt |-> 0,
           grantedAt |-> -1]

\* waitForPermission up to the timeout, or to its end when there is no wait
waitForPermission(p) ==
    LET pruned == Pruned(requestTimestamps, time)
        wait == MustWait(requestTimestamps, time)
        wakeAt == IF wait THEN time + WaitTime(pruned, time) ELSE time
    IN  /\ requestTimestamps' = IF wait THEN pruned ELSE Append(pruned, time)
        /\ sleeping' = IF wait THEN sleeping @@ (p :> wakeAt) ELSE sleeping
        /\ grants' = IF wait THEN grants ELSE Append(grants, time)
        /\ lastWait' = [lastWait EXCEPT ![p] =
                           [seen |-> requestTimestamps, calledAt |-> time,
                            suspended |-> wait, wakeAt |-> wakeAt,
                            grantedAt |-> IF wait THEN -1 ELSE time]]

\* waitForPermission after the timeout: requestTimestamps.push(Date.now())
afterTimeout(p, t) ==
    /\ requestTimestamps' = Append(requestTimestamps, t)
    /\ sleeping' = [q \in DOMAIN sleeping \ {p} |-> sleeping[q]]
    /\ grants' = Append(grants, t)
    /\ lastWait' = [lastWait EXCEPT ![p].grantedAt = t]

\* variant: the list is kept
resetLimiterKeeps == UNCHANGED requestTimestamps

\* resetLimiter: this.requestTimestamps = []
resetLimiter == requestTimestamps' = <<>>

LimiterInit ==
    /\ requestTimestamps = <<>>
    /\ sleeping = [p \in {} |-> 0]
    /\ grants = <<>>
    /\ lastWait = [p \in Callers |-> NoWait]

----------------------------------------------------------------------------
(* services/openaiService.ts: OpenAIService *)

DefaultMaxRetries == 3
DefaultInitialBackoffMs == 1000
MaxBackoffMs == 10000

DefaultConfig ==
    [maxRetries |-> DefaultMaxRetries, initialBackoffMs |-> DefaultInitialBackoffMs]

\* what `await this.openai.chat.completions.create(...)` and the read of
\* choices[0].message.content can give: a text, an empty content, or an error
\* thrown (HTTP status, network code, TypeError on a response without choices)
Transformed == "AI notes"
Outcomes == {"text", "empty", "429", "500", "ECONNRESET", "ETIMEDOUT", "400",
             "TypeError"}

isRetryableError(error) == error \in {"429", "500", "ECONNRESET", "ETIMEDOUT"}

RECURSIVE Pow2(_)
Pow2(n) == IF n <= 0 THEN 1 ELSE 2 * Pow2(n - 1)

Min(a, b) == IF a <= b THEN a ELSE b

\* Math.random() * 0.3, in hundredths
Jitters == {0, 15, 29}

\* variant: the cap is applied before the jitter is added
calculateBackoffCapFirst(retryCount, jitter, initialBackoffMs) ==
    LET exponentialBackoff == initialBackoffMs * Pow2(retryCount - 1)
    IN  Min(exponentialBackoff, MaxBackoffMs) + (jitter * MaxBackoffMs) \div 100

\* variant: the jitter shortens the delay
calculateBackoffJitterDown(retryCount, jitter, initialBackoffMs) ==
    LET exponentialBackoff == initialBackoffMs * Pow2(retryCount - 1)
    IN  Min(exponentialBackoff - (jitter * exponentialBackoff) \div 100, MaxBackoffMs)

\* calculateBackoff; jitter is the value of Math.random() * 0.3, in hundredths
calculateBackoff(retryCount, jitter, initialBackoffMs) ==
    LET exponentialBackoff == initialBackoffMs * Pow2(retryCount - 1)
    IN  Min(exponentialBackoff + (jitter * exponentialBackoff) \div 100, MaxBackoffMs)

\* variant: a failed transformation gives null
AttemptValueNull(notes, outcome) == IF outcome = "text" THEN Transformed ELSE Null

\* the value the operation returns when the loop ends with this outcome
\* (lines 152-158 and 177-179)
AttemptValue(notes, outcome) == IF outcome = "text" THEN Transformed ELSE notes

\* variant: the last retry is not made
ShouldRetryOneLess(error, retryCount, maxRetries) ==
    isRetryableError(error) /\ retryCount + 1 < maxRetries

\* variant: every error is retried
ShouldRetryAnyError(error, retryCount, maxRetries) == retryCount < maxRetries

\* this.isRetryableError(error) && retryCount < this.maxRetries
ShouldRetry(error, retryCount, maxRetries) ==
    isRetryableError(error) /\ retryCount < maxRetries

NoCall == [pc |-> "idle", notes |-> "", retryCount |-> 0, attempts |-> 0,
           outcomes |-> <<>>, delays |-> <<>>, wakeAt |-> 0, circuit |-> "CLOSED",
           permits |-> 0, window |-> <<>>, result |-> "nothing"]

\* main, before the first iteration of its monitoring loop
NoEnd == [at |-> 0, outcome |-> "none"]

MainInit ==
    main = [pc |-> "call", inProgress |-> 0, wake |-> 0, lastStart |-> 0,
            lastEnd |-> NoEnd]

\* UnitService before its first call: knownUnits = null (isNull; the field
\* knownUnits of the model then holds no value of the program)
UnitInit ==
    /\ unitService = [isNull |-> TRUE, knownUnits |-> {}, loads |-> 0,
                      outcome |-> "none"]
    /\ identify = [pc |-> "idle", n |-> 0, units |-> <<>>, loadsBefore |-> 0,
                   knownUnits |-> <<>>, externalUnits |-> <<>>]

\* no element has been handed to extractUnitsFromDOM
NoUnits == <<"none">>

DomInit == domLines = <<>> /\ domUnits = NoUnits

NoEvent == [kind |-> "none", from |-> "CLOSED", elapsed |-> FALSE,
            invokedBefore |-> 0, returned |-> "nothing"]

ServiceInit ==
    /\ time = 0
    /\ breaker = BreakerInit
    /\ running = {}
    /\ invoked = 0
    /\ lastEvent = NoEvent
    /\ LimiterInit
    /\ transformCalls = [p \in Callers |-> NoCall]

----------------------------------------------------------------------------
(* The scan cycle as a state machine *)

ElementCalls == {"getAlarmByDcid", "hea.getActiveUnits", "updateAlarm",
                 "uua.getActiveUnits", "uua.units", "uua.deactivate", "uua.check",
                 "uua.reactivate", "uua.insert", "createAlarm", "cua.units",
                 "cua.insert"}

RemovedCalls == {"pra.getActiveUnits", "dau.check", "dau.update"}

\* the subsets of S of at most k elements
RECURSIVE SubsetsUpTo(_, _)
SubsetsUpTo(S, k) ==
    IF k <= 0 THEN {{}}
    ELSE LET smaller == SubsetsUpTo(S, k - 1)
         IN  smaller \cup {T \cup {c} : T \in smaller, c \in S}

\* the sets of calls that can fail during one step, after n faults
FailSets(calls, n) == SubsetsUpTo(calls, MaxFaults - n)

\* the history entry of a step in which the calls F failed
Failures(F, key) == IF F = {} THEN {} ELSE {key}

ScanInit ==
    /\ alarms = <<>>
    /\ rows = <<>>
    /\ tasks = {}
    /\ now = 0
    /\ board = [d \in DCIDs |-> NoElement]
    /\ pc = "idle"
    /\ dbActiveAlarms = <<>>
    /\ alarmElements = <<>>
    /\ idx = 1
    /\ scrapedDcids = <<>>
    /\ removedAlarms = <<>>
    /\ pre = [alarms |-> <<>>, rows |-> <<>>]
    /\ ops = {}
    /\ failed = {}
    /\ extracted = {}
    /\ sameAsPrev = FALSE
    /\ faults = 0
    /\ escaped = {}

\* scrapeAlarms, lines 428-457: read the active alarms, load the page; with no
\* element on the page go on to deassign every active alarm.  When the page
\* cannot be loaded the error is caught at line 489 and the cycle ends.
\* (boards: the pages the cycle can find; mayFail: whether its reads can fail)
StartCycleOn(boards, mayFail) ==
    /\ pc \in {"idle", "done"}
    /\ now' = now + 1
    /\ \E b \in boards, failRead \in mayFail, failGoto \in mayFail :
        LET n == (IF failRead THEN 1 ELSE 0) + (IF failGoto THEN 1 ELSE 0)
            read == getActiveAlarms(alarms, rows, failRead)
        IN  /\ faults + n <= MaxFaults
            /\ faults' = faults + n
            /\ board' = b
            /\ dbActiveAlarms' = read
            /\ alarmElements' = IF failGoto THEN <<>> ELSE Capture(b)
            /\ failed' = (IF failRead THEN {"getActiveAlarms"} ELSE {})
                            \cup (IF failGoto THEN {"page.goto"} ELSE {})
            /\ escaped' = escaped
                            \cup Escaping(IF failRead THEN {"getActiveAlarms"} ELSE {})
                            \cup Escaping(IF failGoto THEN {"page.goto"} ELSE {})
            /\ sameAsPrev' = /\ pc = "done"
                             /\ b = board
                             /\ failed = {}
                             /\ extracted = Range(alarmElements)
            /\ pc' = IF failGoto THEN "done"
                     ELSE IF Capture(b) # <<>> THEN "elements"
                     ELSE IF read # <<>> THEN "cleared" ELSE "done"
    /\ idx' = 1
    /\ scrapedDcids' = <<>>
    /\ removedAlarms' = <<>>
    /\ pre' = [alarms |-> alarms, rows |-> rows]
    /\ ops' = {}
    /\ extracted' = {}
    /\ UNCHANGED <<dbVars, detectVars, loopVars, benchVars, svcVars>>

StartCycle == now < MaxCycles /\ StartCycleOn(Boards, BOOLEAN)

\* scrapeAlarms, lines 449-456: one iteration of the loop over dbActiveAlarms
\* (calls: the persistence calls that can fail)
ProcessClearedWith(calls) ==
    /\ pc = "cleared"
    /\ \E F \in FailSets(calls, faults) :
        \E alarm \in {dbActiveAlarms[idx]} :
        \E r \in {processRemovedAlarm(alarms, rows, alarm, F, now)} :
            /\ F \subseteq r.made
            /\ rows' = r.rows
            /\ ops' = ops \cup r.ops
            /\ failed' = failed \cup Failures(F, alarm.dcid)
            /\ faults' = faults + Cardinality(F)
            /\ escaped' = escaped \cup Escaping(F)
    /\ idx' = idx + 1
    /\ pc' = IF idx = Len(dbActiveAlarms) THEN "done" ELSE "cleared"
    /\ UNCHANGED <<alarms, tasks, now, board, dbActiveAlarms, alarmElements,
                   scrapedDcids, removedAlarms, pre, extracted, sameAsPrev,
                   detectVars, loopVars, benchVars, svcVars>>

ProcessCleared == ProcessClearedWith(RemovedCalls)

\* scrapeAlarms, lines 461-481: one iteration of the loop over alarmElements;
\* after the last one the removed alarms are computed
\* (states: what the element can be; calls: the persistence calls that can fail)
ProcessElementWith(states, calls) ==
    /\ pc = "elements"
    /\ \E est \in states, F \in FailSets(calls, faults) :
        \E dcid \in {alarmElements[idx]}, attached \in {est = "ok"} :
        \E r \in {extractAlarm(alarms, rows, dcid, board[dcid], attached, F, now)} :
        LET scraped == IF r.value THEN Append(scrapedDcids, dcid) ELSE scrapedDcids
            removed == RemovedAlarms(dbActiveAlarms, scraped)
            last == idx = Len(alarmElements)
        IN  /\ F \subseteq r.made
            /\ ~attached => faults < MaxFaults
            /\ faults' = faults + Cardinality(F) + (IF attached THEN 0 ELSE 1)
            /\ escaped' = escaped \cup Escaping(F)
                            \cup Escaping(IF attached THEN {} ELSE {est})
            /\ alarms' = r.alarms
            /\ rows' = r.rows
            /\ tasks' = tasks \cup r.spawned
            /\ ops' = ops \cup r.ops
            /\ failed' = failed \cup Failures(F, dcid)
                            \cup (IF attached /\ LookupFailed(alarms, dcid, FALSE)
                                  THEN {dcid} ELSE {})
            /\ extracted' = IF attached THEN extracted \cup {dcid} ELSE extracted
            /\ scrapedDcids' = scraped
            /\ removedAlarms' = IF last THEN removed ELSE removedAlarms
            /\ idx' = IF last THEN 1 ELSE idx + 1
            /\ pc' = IF ~last THEN "elements"
                     ELSE IF removed # <<>> THEN "removed" ELSE "done"
    /\ UNCHANGED <<now, board, dbActiveAlarms, alarmElements, pre, sameAsPrev,
                   detectVars, loopVars, benchVars, svcVars>>

ProcessElement == ProcessElementWith(ElementStates, ElementCalls)

\* scrapeAlarms, lines 483-488: one iteration of the loop over removedAlarms
ProcessRemovedWith(calls) ==
    /\ pc = "removed"
    /\ \E F \in FailSets(calls, faults) :
        \E alarm \in {removedAlarms[idx]} :
        \E r \in {processRemovedAlarm(alarms, rows, alarm, F, now)} :
            /\ F \subseteq r.made
            /\ rows' = r.rows
            /\ ops' = ops \cup r.ops
            /\ failed' = failed \cup Failures(F, alarm.dcid)
            /\ faults' = faults + Cardinality(F)
            /\ escaped' = escaped \cup Escaping(F)
    /\ idx' = idx + 1
    /\ pc' = IF idx = Len(removedAlarms) THEN "done" ELSE "removed"
    /\ UNCHANGED <<alarms, tasks, now, board, dbActiveAlarms, alarmElements,
                   scrapedDcids, removedAlarms, pre, extracted, sameAsPrev,
                   detectVars, loopVars, benchVars, svcVars>>

ProcessRemoved == ProcessRemovedWith(RemovedCalls)

\* AlarmService.transformAndUpdateNotes: the detached task of createAlarm ends.
\* transformCallerNotes gave the transformed text or, when the enrichment
\* service failed, the notes themselves; the update of call_ai_notes went
\* through or failed.  Both failures count as faults.
TransformAndUpdateNotes ==
    /\ \E id \in tasks, outcome \in {"transformed", "fallback", "updateFails"} :
        /\ outcome # "transformed" => faults < MaxFaults
        /\ faults' = IF outcome # "transformed" THEN faults + 1 ELSE faults
        /\ escaped' = escaped
                        \cup Escaping(IF outcome = "fallback" THEN {"enrichment"}
                                      ELSE IF outcome = "updateFails"
                                      THEN {"task.update"} ELSE {})
        /\ tasks' = tasks \ {id}
        /\ alarms' = IF outcome = "updateFails" THEN alarms
                     ELSE [alarms EXCEPT ![id].call_ai_notes =
                              IF outcome = "transformed" THEN "AI notes"
                              ELSE alarms[id].call_notes]
    /\ UNCHANGED <<rows, cycleVars, pre, ops, failed, extracted, sameAsPrev,
                   detectVars, loopVars, benchVars, svcVars>>

Init ==
    /\ ScanInit /\ ServiceInit /\ MainInit /\ UnitInit /\ DomInit
    /\ cfg = DefaultConfig
    /\ dArgs = <<>> /\ dResult = NoResult

Next ==
    \/ StartCycle
    \/ ProcessCleared
    \/ ProcessElement
    \/ ProcessRemoved
    \/ TransformAndUpdateNotes

Spec == Init /\ [][Next]_vars

----------------------------------------------------------------------------
(* Claims about the scan cycle, checked under Spec *)

CycleDone == pc = "done"

AlarmIds(as, dcid) == {i \in 1..Len(as) : as[i].dcid = dcid}

RowsOf(rs, alarmId) == {i \in 1..Len(rs) : rs[i].alarm_id = alarmId}

ActiveRowsOf(rs, alarmId) == {i \in RowsOf(rs, alarmId) : IsActive(rs[i])}

ActiveUnitSet(rs, alarmId) == {rs[i].unit_id : i \in ActiveRowsOf(rs, alarmId)}

ActiveIdsAtStart == {dbActiveAlarms[i].id : i \in 1..Len(dbActiveAlarms)}

\* the page was loaded and its elements were captured
PageLoaded == "page.goto" \notin failed

\* every element of the page was extracted
FullyExtracted == extracted = Range(alarmElements)

\* the cycle wrote no field of the alarm row (call_ai_notes is written by the
\* detached enrichment task, not by the cycle)
RowKept(id) ==
    /\ id <= Len(alarms)
    /\ [alarms[id] EXCEPT !.call_ai_notes = Null]
         = [pre.alarms[id] EXCEPT !.call_ai_notes = Null]

NoAlarmWritten ==
    /\ Len(alarms) = Len(pre.alarms)
    /\ \A id \in 1..Len(pre.alarms) : RowKept(id)
    /\ \A o \in ops : o[1] \notin {"createAlarm", "updateAlarm"}

\* C4: a cycle on a board equal to the one the previous cycle captured and
\* persisted issues no persistence mutation.
C4_Idempotent ==
    (CycleDone /\ sameAsPrev /\ FullyExtracted) =>
        (ops = {} /\ rows = pre.rows /\ NoAlarmWritten)

AbsentActive ==
    {id \in 1..Len(pre.alarms) :
        /\ ActiveRowsOf(pre.rows, id) # {}
        /\ ~board[pre.alarms[id].dcid].present}

C7_ActiveEqualsCaptured ==
    (CycleDone /\ failed = {}) =>
        \A d \in extracted :
            /\ Cardinality(AlarmIds(alarms, d)) = 1
            /\ \A id \in AlarmIds(alarms, d) :
                LET C == Range(board[d].units)
                    E == ActiveUnitSet(pre.rows, id)
                IN  /\ ActiveUnitSet(rows, id) = C
                    /\ \A r \in RowsOf(rows, id) :
                          IF r > Len(pre.rows)
                          THEN rows[r].unit_id \in C \ E /\ IsActive(rows[r])
                          ELSE \/ rows[r] = pre.rows[r]
                               \/ /\ rows[r].unit_id \in C \ E
                                  /\ ~IsActive(pre.rows[r])
                                  /\ IsActive(rows[r])
                               \/ /\ rows[r].unit_id \in E \ C
                                  /\ ~IsActive(rows[r])

\* the alarm had E1, the page shows E1 and L2: one row is added, for L2
C7_Witness ==
    /\ CycleDone /\ failed = {} /\ "101" \in extracted
    /\ board["101"].units = <<"E1", "L2">>
    /\ \E id \in AlarmIds(pre.alarms, "101") :
          /\ ActiveUnitSet(pre.rows, id) = {"E1"}
          /\ Len(rows) = Len(pre.rows) + 1
          /\ rows[Len(rows)].unit_id = "L2"
          /\ rows[Len(rows)].alarm_id = id
          /\ \A r \in 1..Len(pre.rows) : rows[r] = pre.rows[r]

\* C8: at most one active assignment row per (alarm, unit) pair.
C8_OneActiveRowPerPair ==
    \A i, j \in 1..Len(rows) :
        (/\ i # j
         /\ rows[i].alarm_id = rows[j].alarm_id
         /\ rows[i].unit_id = rows[j].unit_id
         /\ IsActive(rows[i]))
            => ~IsActive(rows[j])

\* C9: at most one alarm record per dcid.
C9_OneAlarmPerDcid ==
    \A i, j \in 1..Len(alarms) : alarms[i].dcid = alarms[j].dcid => i = j

\* C10: on the update path, whenever detectChanges reports a change, the
\* last_updated of the alarm is refreshed to the current time in that cycle.
C10_LastUpdatedRefreshed ==
    (CycleDone /\ failed = {}) =>
        \A d \in extracted : \A id \in AlarmIds(pre.alarms, d) :
            LET el == board[d]
                changes == detectChanges(pre.alarms[id], ExtractedData(el, d, now),
                                         getActiveUnits(pre.rows, id, FALSE), el.units)
            IN  changes.hasAnyChanges => alarms[id].last_updated = now

\* C11: every step that changes a persisted alarm record leaves its
\* last_updated at the current time, and last_updated never decreases.
C11_WritesRefreshLastUpdated ==
    [][\A id \in 1..Len(alarms) :
          alarms'[id] # alarms[id] =>
              /\ alarms'[id].last_updated = now'
              /\ alarms'[id].last_updated >= alarms[id].last_updated]_vars

\* C12: the transformation is dispatched for an alarm only in the step that
\* creates it, call_ai_notes is written only by the end of that task and only
\* while it is still null (hence at most once); no other step, an update of
\* call_notes included, dispatches the task or writes the field.
C12_EnrichedOnce ==
    [][\A id \in 1..Len(alarms') :
          /\ id \in tasks' \ tasks => id > Len(alarms)
          /\ id <= Len(alarms)
                => /\ id \in tasks' => id \in tasks
                   /\ alarms'[id].call_ai_notes # alarms[id].call_ai_notes
                         => /\ id \in tasks /\ id \notin tasks'
                            /\ alarms[id].call_ai_notes = Null]_vars

\* an alarm created without notes got its call_notes from an update in this
\* cycle: no task is in flight for it and call_ai_notes is still null
C12_Witness ==
    \E id \in 1..Len(pre.alarms) :
        /\ CycleDone /\ <<"updateAlarm", id>> \in ops
        /\ pre.alarms[id].call_notes = Null
        /\ alarms[id].call_notes # Null
        /\ alarms[id].call_ai_notes = Null
        /\ id \notin tasks

\* C13: the is_external flag of every assignment row tells whether its unit is
\* absent from the registry of known units.
C13_IsExternalMatchesRegistry ==
    \A i \in 1..Len(rows) : rows[i].is_external = (rows[i].unit_id \notin KnownUnits)

ElementStep == pc = "elements" /\ <<idx, pc>>' # <<idx, pc>>

\* C22: whatever happens to one captured element, the loop goes on to the
\* next one, after the last one the removed alarms are computed and their
\* phase is entered, and the iteration writes no alarm and no assignment of
\* another dcid.
C22_ElementFailureIsLocal ==
    [][ElementStep =>
         LET dcid == alarmElements[idx]
             removed == RemovedAlarms(dbActiveAlarms, scrapedDcids')
         IN  /\ idx < Len(alarmElements) => pc' = "elements" /\ idx' = idx + 1
             /\ idx = Len(alarmElements)
                  => /\ removedAlarms' = removed
                     /\ pc' = IF removed # <<>> THEN "removed" ELSE "done"
                     /\ idx' = 1
             /\ Len(alarms') >= Len(alarms) /\ Len(rows') >= Len(rows)
             /\ \A id \in 1..Len(alarms') :
                  alarms'[id].dcid # dcid => id <= Len(alarms) /\ alarms'[id] = alarms[id]
             /\ \A r \in 1..Len(rows') :
                  alarms'[rows'[r].alarm_id].dcid # dcid
                      => r <= Len(rows) /\ rows'[r] = rows[r]]_vars

\* the element of 101 was detached and skipped; 102, which comes after it, was
\* created, and the removed-alarm phase ran
C22_Witness ==
    /\ CycleDone /\ alarmElements = <<"101", "102">>
    /\ "101" \notin extracted
    /\ ~Includes(scrapedDcids, "101") /\ Includes(scrapedDcids, "102")
    /\ AlarmIds(pre.alarms, "102") = {} /\ AlarmIds(alarms, "102") # {}
    /\ \E id \in AlarmIds(pre.alarms, "101") : <<"deassignAll", id>> \in ops

\* C23: a cycle whose page could not be loaded, or whose initial read of the
\* active alarms failed, processes no element and issues no mutation.
C23_CycleLevelErrorAborts ==
    (CycleDone /\ failed \cap {"page.goto", "getActiveAlarms"} # {}) =>
        /\ ops = {}
        /\ extracted = {}
        /\ scrapedDcids = <<>>
        /\ rows = pre.rows
        /\ NoAlarmWritten

\* C25: the iteration that creates an alarm with notes leaves its enrichment
\* task in flight and call_ai_notes null, and goes on: the assignments of the
\* new alarm are issued in the same iteration and the loop moves to the next
\* element or phase.  The end of a task changes nothing but the call_ai_notes
\* of its own alarm, at whatever point of whatever cycle it comes.
C25_FireAndForget ==
    [][/\ \A id \in (1..Len(alarms')) \ (1..Len(alarms)) :
            /\ ElementStep
            /\ alarms'[id].call_ai_notes = Null
            /\ Truthy(alarms'[id].call_notes) => id \in tasks'
            /\ Len(board[alarms'[id].dcid].units) > 0 => <<"insert", id>> \in ops'
       /\ \A id \in tasks' \ tasks : id > Len(alarms)
       /\ \A id \in tasks \ tasks' :
            /\ UNCHANGED <<rows, cycleVars, pre, ops, failed, extracted>>
            /\ Len(alarms') = Len(alarms)
            /\ \A j \in 1..Len(alarms) :
                 /\ j # id => alarms'[j] = alarms[j]
                 /\ [alarms'[j] EXCEPT !.call_ai_notes = Null]
                      = [alarms[j] EXCEPT !.call_ai_notes = Null]]_vars

\* the task of an alarm created in an earlier cycle is still in flight at the
\* end of this cycle, and the alarm has had its assignments since then
C25_Witness ==
    \E id \in tasks :
        /\ CycleDone
        /\ id <= Len(pre.alarms)
        /\ RowsOf(pre.rows, id) # {}
        /\ alarms[id].call_ai_notes = Null

\* C26: when the captured element of a persisted alarm has no address or no
\* call type, the cycle leaves the persisted address and alarm_type as they
\* were; the defaults 'Unknown Address' and 'Unknown' never replace a known value.
C26_NeverRegressToUnknown ==
    CycleDone =>
        \A d \in extracted : \A id \in AlarmIds(pre.alarms, d) :
            /\ board[d].address = "" => alarms[id].address = pre.alarms[id].address
            /\ board[d].callType = "" => alarms[id].alarm_type = pre.alarms[id].alarm_type
            /\ pre.alarms[id].address # "Unknown Address"
                 => alarms[id].address # "Unknown Address"
            /\ pre.alarms[id].alarm_type # "Unknown"
                 => alarms[id].alarm_type # "Unknown"

\* C27: every element whose dcid was read is recorded in scrapedDcids, whatever
\* became of its create or update branch, so the removed-alarm phase of the
\* cycle never handles, and never deassigns, an alarm whose dcid was captured.
C27_CapturedIsSeen ==
    /\ \A d \in extracted : pc \in {"removed", "done"} => Includes(scrapedDcids, d)
    /\ \A i \in 1..Len(removedAlarms) : removedAlarms[i].dcid \notin extracted
    /\ CycleDone =>
          \A d \in extracted : \A id \in AlarmIds(pre.alarms, d) :
              <<"deassignAll", id>> \notin ops

\* C28: an alarm that is active and whose element is on the page in this cycle
\* keeps its active assignments when the element was dropped by a transient
\* error: the removed-alarm phase does not close them.
C28_DroppedElementKeepsAssignments ==
    (CycleDone /\ PageLoaded) =>
        \A d \in Range(alarmElements) \ extracted :
            \A id \in AlarmIds(pre.alarms, d) :
                /\ <<"deassignAll", id>> \notin ops
                /\ \A r \in ActiveRowsOf(pre.rows, id) : IsActive(rows[r])

\* the alarms of dcid d all of whose assignments were closed when the cycle
\* started
Reappearing(d) ==
    {id \in AlarmIds(pre.alarms, d) :
        RowsOf(pre.rows, id) # {} /\ ActiveRowsOf(pre.rows, id) = {}}

\* C29: when a dcid is captured whose alarm has closed assignments only, the
\* cycle creates no alarm record for it; every captured unit that has a row
\* of that alarm is active again on its old row and gets no new row; new rows
\* are inserted only for captured units that had no row.
C29_ReappearanceReactivates ==
    CycleDone =>
        \A d \in extracted : \A id \in Reappearing(d) :
            LET C == Range(board[d].units)
                had == {pre.rows[r].unit_id : r \in RowsOf(pre.rows, id)}
            IN  /\ AlarmIds(alarms, d) = AlarmIds(pre.alarms, d)
                /\ <<"updateAlarm", id>> \in ops \/ RowKept(id)
                /\ \A r \in RowsOf(pre.rows, id) :
                      rows[r].unit_id \in C => IsActive(rows[r])
                /\ \A r \in RowsOf(rows, id) :
                      r > Len(pre.rows) => rows[r].unit_id \in C \ had

\* the scalar fields of an alarm record and the flag detectChanges has for each
ScalarFields == {"alarm_type", "address", "call_notes", "call_timeline"}

Flag(changes, f) ==
    CASE f = "alarm_type" -> changes.callTypeChanged
      [] f = "address" -> changes.addressChanged
      [] f = "call_notes" -> changes.notesChanged
      [] f = "call_timeline" -> changes.timelineChanged

\* the assignment mutations of updateUnitAssignments
AssignmentOps(id) ==
    {<<"deactivate", id>>, <<"reactivate", id>>, <<"insert", id>>}

\* C30: on the update path a scalar field whose flag is false keeps its
\* persisted value, a flagged field takes the captured value or keeps the
\* persisted one, the fields that have no flag are never written, updateAlarm
\* is issued only when a scalar flag is set (last_updated moves only then) and
\* updateUnitAssignments only when detectChanges reported added or removed
\* units.
C30_OnlyFlaggedFieldsWritten ==
    CycleDone =>
        \A d \in extracted : \A id \in AlarmIds(pre.alarms, d) :
            LET newData == ExtractedData(board[d], d, now)
                changes == detectChanges(pre.alarms[id], newData,
                                         getActiveUnits(pre.rows, id, FALSE),
                                         board[d].units)
                \* what detectChanges is given when getActiveUnits fails
                blind == detectChanges(pre.alarms[id], newData, <<>>, board[d].units)
            IN  /\ \A f \in ScalarFields :
                      IF Flag(changes, f)
                      THEN alarms[id][f] \in {pre.alarms[id][f], ToDb(newData[f])}
                      ELSE alarms[id][f] = pre.alarms[id][f]
                /\ \A f \in {"id", "dcid", "alarm_timestamp"} :
                      alarms[id][f] = pre.alarms[id][f]
                /\ <<"updateAlarm", id>> \in ops => ScalarChanged(changes)
                /\ ~ScalarChanged(changes)
                      => alarms[id].last_updated = pre.alarms[id].last_updated
                /\ ops \cap AssignmentOps(id) # {}
                      => \/ UnitsChanged(changes)
                         \/ d \in failed /\ UnitsChanged(blind)
                /\ (~UnitsChanged(changes) /\ d \notin failed)
                      => \A r \in RowsOf(rows, id) :
                            r <= Len(pre.rows) /\ rows[r] = pre.rows[r]

\* the element came without its texts: address and alarm_type were flagged and
\* written, call_notes and call_timeline were not flagged and kept their values
C30_Witness ==
    \E id \in AlarmIds(pre.alarms, "101") :
        /\ CycleDone /\ failed = {} /\ "101" \in extracted
        /\ <<"updateAlarm", id>> \in ops
        /\ board["101"].notes = Undefined
        /\ alarms[id].address # pre.alarms[id].address
        /\ alarms[id].call_notes = pre.alarms[id].call_notes
        /\ alarms[id].call_notes # Null
        /\ alarms[id].last_updated = now

\* C34: the limiter and the breaker of the shared OpenAIService are used
\* by one transformCallerNotes invocation at a time: at no point are the
\* detached transformAndUpdateNotes tasks of two alarms in flight together.
C34_OneInvocationAtATime == Cardinality(tasks) <= 1

----------------------------------------------------------------------------
(* The scan cycle when persistence mutations fail for a while: the reads
   and the page work, a mutation can fail, the page stays as it is after a
   cycle in which one failed, and the loop of main keeps calling scrapeAlarms *)

MutationCalls == {"updateAlarm", "uua.deactivate", "uua.reactivate", "uua.insert",
                  "createAlarm", "cua.insert", "dau.update"}

\* scrapeAlarms is called after a cycle without failure
NewBoard == failed = {} /\ now < MaxCycles /\ StartCycleOn(Boards, {FALSE})

\* scrapeAlarms is called after a cycle in which a mutation failed; the page
\* has not changed
SameBoard == failed # {} /\ StartCycleOn({board}, {FALSE})

NextConverge ==
    \/ NewBoard
    \/ SameBoard
    \/ ProcessClearedWith(MutationCalls)
    \/ ProcessElementWith({"ok"}, MutationCalls)
    \/ ProcessRemovedWith(MutationCalls)
    \/ TransformAndUpdateNotes

\* a step of the loop of main is due: a cycle is in progress, or the loop
\* has another scrapeAlarms to call
Due == pc \notin {"idle", "done"} \/ failed # {} \/ now < MaxCycles

\* the positions scrapeAlarms and the loop of main can be in
Positions ==
    {"idle", "cleared", "elements", "removed", "done"}
        \X (1..(Cardinality(DCIDs) + 1)) \X (0..(MaxCycles + MaxFaults + 1))

\* the loop moves on: main calls scrapeAlarms again every REFRESH_INTERVAL
\* (part_002 43-52), and every awaited call of a cycle returns.  Every step
\* of NextConverge but the end of a detached task is such a step.
Proceeds ==
    /\ Due
    /\ \E to \in Positions :
          /\ to # <<pc, idx, now>>
          /\ pc' = to[1] /\ idx' = to[2] /\ now' = to[3]

SpecConverge == Init /\ [][NextConverge]_vars /\ WF_<<pc, idx, now>>(Proceeds)

\* the store agrees with the page: every alarm on the page has one record
\* whose fields are the captured ones (a field the page does not give keeps
\* its value) and whose active units are the captured units; every alarm that
\* is not on the page has no active assignment
ConvergedOn(as, rs) ==
    \A d \in DCIDs :
        IF board[d].present
        THEN /\ Cardinality(AlarmIds(as, d)) = 1
             /\ \A id \in AlarmIds(as, d) :
                   LET newData == ExtractedData(board[d], d, now)
                   IN  /\ \A f \in ScalarFields :
                             (newData[f] \notin {Undefined, Null, ""})
                                 => as[id][f] = newData[f]
                       /\ ActiveUnitSet(rs, id) = Range(board[d].units)
        ELSE \A id \in AlarmIds(as, d) : ActiveRowsOf(rs, id) = {}

Converged == ConvergedOn(alarms, rows)

\* a failed mutation is not made up for within its cycle: the cycle ends with
\* the store differing from the page; a cycle without failure that started
\* from a differing store has issued mutations and ends in agreement
RetriedByNextCycle ==
    CycleDone =>
        /\ failed # {} => ~Converged
        /\ failed = {} => Converged
        /\ (failed = {} /\ ~ConvergedOn(pre.alarms, pre.rows)) => ops # {}

\* C36: a mutation that fails is not retried within its cycle; with the page
\* unchanged the next cycle derives and issues it again; and once the calls
\* succeed the persisted fields and active unit sets equal the page and no
\* alarm absent from the page has an active assignment.
C36_ConvergesAfterFailure ==
    /\ []RetriedByNextCycle
    /\ (CycleDone /\ failed # {}) ~> (CycleDone /\ failed = {} /\ Converged)

\* a cycle on the unchanged page has repaired what the failed mutation of
\* the cycle before left undone
C36_Witness ==
    /\ CycleDone /\ failed = {} /\ faults > 0
    /\ ~ConvergedOn(pre.alarms, pre.rows)
    /\ Converged
    /\ ops # {}
    /\ now > 1

----------------------------------------------------------------------------
(* The detectChanges test bench *)

InitDetect ==
    /\ dArgs \in [existing : ExistingAlarms, current : IncomingAlarms,
                  existingUnits : UnitLists, currentUnits : UnitLists]
    /\ dResult = NoResult
    /\ ScanInit
    /\ ServiceInit
    /\ MainInit /\ UnitInit /\ DomInit
    /\ cfg = DefaultConfig

Detect ==
    /\ dResult = NoResult
    /\ dResult' = detectChanges(dArgs.existing, dArgs.current,
                                dArgs.existingUnits, dArgs.currentUnits)
    /\ UNCHANGED <<dArgs, scanVars, svcVars, loopVars, benchVars>>

NextDetect == Detect

SpecDetect == InitDetect /\ [][NextDetect]_vars

----------------------------------------------------------------------------
(* Claims about detectChanges, checked under SpecDetect *)

Present(v) == v # Undefined /\ v # Null /\ v # ""

Detected == dResult # NoResult

\* C1: each scalar flag of detectChanges is true iff the incoming value of the
\* field is present (not undefined, null or "") and unequal to the existing
\* value; an absent incoming value never sets the flag.
C1_ScalarFlags ==
    Detected =>
        LET cur == dArgs.current
            ex  == dArgs.existing
        IN  /\ dResult.callTypeChanged =
                 (Present(cur.alarm_type) /\ cur.alarm_type # ex.alarm_type)
            /\ dResult.addressChanged =
                 (Present(cur.address) /\ cur.address # ex.address)
            /\ dResult.notesChanged =
                 (Present(cur.call_notes) /\ cur.call_notes # ex.call_notes)
            /\ dResult.timelineChanged =
                 (Present(cur.call_timeline) /\ cur.call_timeline # ex.call_timeline)

\* an absent incoming value facing a different existing value, and a present
\* one that differs, in the same call
C1_Witness ==
    /\ Detected
    /\ dArgs.current.call_notes = "" /\ dArgs.existing.call_notes = "a"
    /\ ~dResult.notesChanged
    /\ dArgs.current.alarm_type = "b" /\ dArgs.existing.alarm_type = "a"
    /\ dResult.callTypeChanged
    /\ dArgs.current.address = Undefined /\ ~dResult.addressChanged

\* C2: added = current units not in existing, removed = existing units not in
\* current; the two are disjoint, their union is the symmetric difference of
\* the two sets, and both are empty when the sets are equal.
C2_UnitDiff ==
    Detected =>
        LET E == Range(dArgs.existingUnits)
            C == Range(dArgs.currentUnits)
            A == Range(dResult.unitsChanged.added)
            R == Range(dResult.unitsChanged.removed)
        IN  /\ A = C \ E
            /\ R = E \ C
            /\ A \cap R = {}
            /\ A \cup R = (C \ E) \cup (E \ C)
            /\ (E = C) => (dResult.unitsChanged.added = <<>>
                           /\ dResult.unitsChanged.removed = <<>>)

C2_Witness ==
    /\ Detected
    /\ dArgs.existingUnits = <<"E1">>
    /\ dArgs.currentUnits = <<"L2", "L2">>
    /\ dResult.unitsChanged.added = <<"L2", "L2">>
    /\ dResult.unitsChanged.removed = <<"E1">>

\* C3: hasAnyChanges is true iff one of the four scalar flags is true or the
\* added list or the removed list is non-empty.
C3_HasAnyChanges ==
    Detected =>
        (dResult.hasAnyChanges = TRUE) <=>
            \/ dResult.callTypeChanged
            \/ dResult.addressChanged
            \/ dResult.notesChanged
            \/ dResult.timelineChanged
            \/ dResult.unitsChanged.added # <<>>
            \/ dResult.unitsChanged.removed # <<>>

\* only a unit was removed: nothing else changed
C3_Witness ==
    /\ Detected
    /\ dResult.hasAnyChanges = TRUE
    /\ ~dResult.callTypeChanged /\ ~dResult.addressChanged
    /\ ~dResult.notesChanged /\ ~dResult.timelineChanged
    /\ dResult.unitsChanged.added = <<>>
    /\ dResult.unitsChanged.removed = <<"E1">>

----------------------------------------------------------------------------
(* The CircuitBreaker test bench: callers run executeWithCircuitBreaker with
   an operation that may resolve or reject *)

MaxTicks == 4
MaxCalls == 7

\* the clock moves on by half a reset timeout, or to the time a timer is set to
TickMs == ResetTimeoutMs \div 2

Timers ==
    {sleeping[p] : p \in DOMAIN sleeping}
        \cup {transformCalls[p].wakeAt :
                 p \in {q \in Callers : transformCalls[q].pc = "backoff"}}
        \cup (IF main.pc = "sleep" THEN {main.wake} ELSE {})

Tick ==
    /\ \E t \in {time + TickMs} \cup {d \in Timers : d > time} :
          /\ t <= MaxTicks * TickMs
          /\ time' = t
    /\ UNCHANGED <<breakerVars, limiterVars, transformVars, detectVars, loopVars, benchVars,
                   scanVars>>

\* executeWithCircuitBreaker up to `await operation()`
BreakerCall(p) ==
    /\ p \notin running
    /\ invoked < MaxCalls
    /\ breaker' = EnterBreaker(breaker, time)
    /\ running' = IF FastFail(breaker, time) THEN running ELSE running \cup {p}
    /\ invoked' = IF FastFail(breaker, time) THEN invoked ELSE invoked + 1
    /\ lastEvent' = [kind |-> IF FastFail(breaker, time) THEN "rejected" ELSE "invoked",
                     from |-> breaker.state,
                     elapsed |-> time - breaker.lastFailureTime >= ResetTimeoutMs,
                     invokedBefore |-> invoked,
                     returned |-> IF FastFail(breaker, time) THEN "fallback"
                                  ELSE "nothing"]
    /\ UNCHANGED <<time, limiterVars, transformVars,
                   detectVars, loopVars, benchVars, scanVars>>

\* executeWithCircuitBreaker from the resolution of the operation on
OperationSucceeds(p) ==
    /\ p \in running
    /\ breaker' = OperationResolved(breaker)
    /\ running' = running \ {p}
    /\ lastEvent' = [kind |-> "succeeded", from |-> breaker.state, elapsed |-> FALSE,
                     invokedBefore |-> invoked, returned |-> "result"]
    /\ UNCHANGED <<time, invoked, limiterVars, transformVars,
                   detectVars, loopVars, benchVars, scanVars>>

\* executeWithCircuitBreaker from the rejection of the operation on
OperationFails(p) ==
    /\ p \in running
    /\ breaker' = OperationRejected(breaker, time)
    /\ running' = running \ {p}
    /\ lastEvent' = [kind |-> "failed", from |-> breaker.state, elapsed |-> FALSE,
                     invokedBefore |-> invoked, returned |-> "fallback"]
    /\ UNCHANGED <<time, invoked, limiterVars, transformVars,
                   detectVars, loopVars, benchVars, scanVars>>

NextBreaker ==
    \/ Tick
    \/ \E p \in Callers : BreakerCall(p)
    \/ \E p \in Callers : OperationSucceeds(p)
    \/ \E p \in Callers : OperationFails(p)

SpecBreaker == Init /\ [][NextBreaker]_vars

----------------------------------------------------------------------------
(* Claims about the CircuitBreaker, checked under SpecBreaker *)

\* C14: a CLOSED breaker whose failure count reaches the threshold is OPEN; a
\* call that finds it OPEN before the reset timeout has elapsed returns the
\* fallback and invokes nothing; a call that finds it OPEN after the timeout
\* invokes the operation in HALF_OPEN; a success in HALF_OPEN leaves the
\* breaker CLOSED with failureCount = 0.
C14_BreakerCycle ==
    /\ breaker.state = "CLOSED" => breaker.failureCount < FailureThreshold
    /\ (lastEvent.kind = "failed" /\ lastEvent.from = "CLOSED"
            /\ breaker.failureCount >= FailureThreshold)
          => breaker.state = "OPEN"
    /\ (lastEvent.kind \in {"rejected", "invoked"} /\ lastEvent.from = "OPEN")
          => IF lastEvent.elapsed
             THEN /\ lastEvent.kind = "invoked"
                  /\ breaker.state = "HALF_OPEN"
                  /\ invoked = lastEvent.invokedBefore + 1
             ELSE /\ lastEvent.kind = "rejected"
                  /\ lastEvent.returned = "fallback"
                  /\ breaker.state = "OPEN"
                  /\ invoked = lastEvent.invokedBefore
    /\ (lastEvent.kind = "succeeded" /\ lastEvent.from = "HALF_OPEN")
          => breaker.state = "CLOSED" /\ breaker.failureCount = 0

\* the probe call in HALF_OPEN has just succeeded
C14_Witness ==
    /\ lastEvent.kind = "succeeded" /\ lastEvent.from = "HALF_OPEN"
    /\ breaker.state = "CLOSED" /\ breaker.failureCount = 0
    /\ breaker.lastFailureTime > 0
    /\ invoked > FailureThreshold

\* C15: a failure of the operation while the breaker is HALF_OPEN puts the
\* breaker back to OPEN, with the cooldown restarted.
C15_HalfOpenFailureReopens ==
    (lastEvent.kind = "failed" /\ lastEvent.from = "HALF_OPEN")
        => breaker.state = "OPEN" /\ breaker.lastFailureTime = time

\* C31: failureCount becomes smaller only in the step of a successful call
\* that finds the breaker HALF_OPEN, which leaves it CLOSED with the count 0;
\* a successful call that finds the breaker CLOSED leaves failureCount as it
\* was, so failures accumulate across successes; in every other step
\* failureCount does not decrease.
C31_FailureCountResetOnlyOnClose ==
    [][/\ breaker'.failureCount < breaker.failureCount
            => /\ breaker.state = "HALF_OPEN"
               /\ lastEvent'.kind = "succeeded"
               /\ breaker'.state = "CLOSED"
               /\ breaker'.failureCount = 0
       /\ (lastEvent'.kind = "succeeded" /\ running' # running
               /\ breaker.state = "CLOSED")
            => breaker'.failureCount = breaker.failureCount
       /\ (lastEvent'.kind = "succeeded" /\ running' # running
               /\ breaker.state = "HALF_OPEN")
            => breaker'.failureCount = 0]_vars

\* a call has succeeded on a CLOSED breaker that had counted failures, and
\* the count is still there
C31_Witness ==
    /\ lastEvent.kind = "succeeded" /\ lastEvent.from = "CLOSED"
    /\ breaker.state = "CLOSED"
    /\ breaker.failureCount > 1

----------------------------------------------------------------------------
(* The monitoring loop of main (part_002, lines 42-52): scrapeAlarms is
   awaited, then the loop sleeps REFRESH_INTERVAL, in the try and in the
   catch alike *)

RefreshInterval == 15000

\* variant: the loop does not sleep
SleepUntilNow(t) == t

\* sleep(REFRESH_INTERVAL) called at time t: the deadline of its timeout
SleepUntil(t) == t + RefreshInterval

\* line 45: scraper.scrapeAlarms() is called
ScrapeStarts ==
    /\ main.pc = "call"
    /\ main' = [main EXCEPT !.pc = "scrapeAlarms",
                            !.inProgress = @ + 1,
                            !.lastStart = time]
    /\ UNCHANGED <<time, breakerVars, limiterVars, transformVars, detectVars, benchVars,
                   scanVars>>

\* the awaited scrapeAlarms settles: it returns, after a cycle that went well
\* or after one that failed and was logged, and line 47 sleeps; were it to
\* throw, the catch of main would sleep at line 50
ScrapeEnds ==
    /\ main.pc = "scrapeAlarms"
    /\ \E outcome \in {"returned", "failed", "threw"} :
          main' = [main EXCEPT !.pc = "sleep",
                               !.inProgress = @ - 1,
                               !.lastEnd = [at |-> time, outcome |-> outcome],
                               !.wake = SleepUntil(time)]
    /\ UNCHANGED <<time, breakerVars, limiterVars, transformVars, detectVars, benchVars,
                   scanVars>>

\* the timeout of sleep fires, at its deadline or later
SleepEnds ==
    /\ main.pc = "sleep"
    /\ time >= main.wake
    /\ main' = [main EXCEPT !.pc = "call"]
    /\ UNCHANGED <<time, breakerVars, limiterVars, transformVars, detectVars, benchVars,
                   scanVars>>

NextMain ==
    \/ Tick
    \/ ScrapeStarts
    \/ ScrapeEnds
    \/ SleepEnds

SpecMain == Init /\ [][NextMain]_vars

----------------------------------------------------------------------------
(* Claims about the monitoring loop, checked under SpecMain *)

\* C24: at most one scrapeAlarms invocation is in progress at any time, and
\* an invocation that has a predecessor is in progress only if it started
\* when the predecessor had ended and REFRESH_INTERVAL had passed since,
\* whether the predecessor returned, failed or threw.
C24_CyclesDoNotOverlap ==
    /\ main.inProgress <= 1
    /\ main.inProgress = (IF main.pc = "scrapeAlarms" THEN 1 ELSE 0)
    /\ (main.pc = "scrapeAlarms" /\ main.lastEnd # NoEnd)
          => main.lastStart >= main.lastEnd.at + RefreshInterval
    /\ (main.pc # "scrapeAlarms" /\ main.lastEnd # NoEnd)
          => main.lastEnd.at >= main.lastStart
    /\ main.pc = "sleep" => main.wake = main.lastEnd.at + RefreshInterval

\* a cycle is in progress that started 15 s after the one before it, which
\* took time and failed
C24_Witness ==
    /\ main.pc = "scrapeAlarms"
    /\ main.lastEnd.outcome = "failed"
    /\ main.lastEnd.at > 0
    /\ main.lastStart = main.lastEnd.at + RefreshInterval

----------------------------------------------------------------------------
(* The RateLimiter test bench: concurrent callers of waitForPermission, and
   resetLimiter *)

MaxGrants == 5

\* a caller enters waitForPermission
WaitForPermission(p) ==
    /\ p \notin DOMAIN sleeping
    /\ Len(grants) + Cardinality(DOMAIN sleeping) < MaxGrants
    /\ waitForPermission(p)
    /\ UNCHANGED <<time, breakerVars, transformVars, detectVars, loopVars, benchVars, scanVars>>

\* the timeout of a suspended caller fires
Wake(p) ==
    /\ p \in DOMAIN sleeping
    /\ time >= sleeping[p]
    /\ afterTimeout(p, time)
    /\ UNCHANGED <<time, breakerVars, transformVars, detectVars, loopVars, benchVars, scanVars>>

\* resetLimiter is called
ResetLimiter ==
    /\ requestTimestamps # <<>>
    /\ resetLimiter
    /\ UNCHANGED <<time, sleeping, grants, lastWait, breakerVars, transformVars,
                   detectVars, loopVars, benchVars, scanVars>>

NextLimiter ==
    \/ Tick
    \/ \E p \in Callers : WaitForPermission(p)
    \/ \E p \in Callers : Wake(p)
    \/ ResetLimiter

SpecLimiter == Init /\ [][NextLimiter]_vars

----------------------------------------------------------------------------
(* Claims about the RateLimiter, checked under SpecLimiter *)

\* the timestamps recorded in the 60 seconds that end with the i-th one
GrantsInWindow(i) ==
    {j \in 1..Len(grants) : grants[j] <= grants[i] /\ grants[i] - grants[j] < WindowMs}

\* C16: no trailing 60-second window holds more than requestsPerMinute
\* recorded timestamps.
C16_RateBound ==
    \A i \in 1..Len(grants) : Cardinality(GrantsInWindow(i)) <= RequestsPerMinute

\* the timestamps a call found that were less than 60 seconds old
InWindow(w) == {i \in 1..Len(w.seen) : w.calledAt - w.seen[i] < WindowMs}

Oldest(w) == w.seen[CHOOSE i \in InWindow(w) : \A j \in InWindow(w) : i <= j]

\* C17: a call that finds requestsPerMinute timestamps (or more) in the last
\* 60 seconds is suspended for 60000 - age of the oldest of them + 100 ms,
\* which is no less than the time the oldest one stays in the window, and its
\* own timestamp is not recorded before that; a call that finds fewer
\* timestamps is not suspended and gets its timestamp at once.
C17_Blocking ==
    \A p \in Callers :
        LET w == lastWait[p]
        IN  IF Cardinality(InWindow(w)) >= RequestsPerMinute
            THEN /\ w.suspended
                 /\ w.wakeAt - w.calledAt
                        = WindowMs - (w.calledAt - Oldest(w)) + BufferMs
                 /\ w.wakeAt - w.calledAt >= Oldest(w) + WindowMs - w.calledAt
                 /\ w.grantedAt = -1 <=> p \in DOMAIN sleeping
                 /\ w.grantedAt # -1 => w.grantedAt >= w.wakeAt
            ELSE /\ ~w.suspended
                 /\ p \notin DOMAIN sleeping
                 /\ w # NoWait => w.grantedAt = w.calledAt

\* a caller that found the window full has slept and got its timestamp
C17_Witness ==
    \E p \in Callers :
        /\ lastWait[p].suspended
        /\ lastWait[p].calledAt > 0
        /\ lastWait[p].grantedAt >= lastWait[p].wakeAt
        /\ lastWait[p].wakeAt > lastWait[p].calledAt + BufferMs

----------------------------------------------------------------------------
(* OpenAIService.transformCallerNotes, run by concurrent callers on one
   service object (its rate limiter and circuit breaker) *)

MaxTransforms == 1

Configs ==
    [maxRetries : 1..DefaultMaxRetries,
     initialBackoffMs : {DefaultInitialBackoffMs, 4 * DefaultInitialBackoffMs}]

NotesGiven == {"", "Call Notes: smoke"}

\* createAlarm dispatches the calls one at a time here: a call is started when
\* the previous one has returned
TransformCallers == {"c1"}

InitTransform ==
    /\ ScanInit /\ ServiceInit /\ MainInit /\ UnitInit /\ DomInit
    /\ cfg \in Configs
    /\ dArgs = <<>> /\ dResult = NoResult

\* transformCallerNotes up to the first await of the operation (lines 33-47;
\* executeWithCircuitBreaker lines 244-258)
TransformCallerNotes(p) ==
    /\ transformCalls[p].pc \in {"idle", "returned"}
    /\ invoked < MaxTransforms
    /\ \E notes \in NotesGiven :
        LET c == [NoCall EXCEPT !.notes = notes, !.circuit = breaker.state]
        IN  IF ~Truthy(notes)
            THEN /\ transformCalls' = [transformCalls EXCEPT ![p] =
                                [c EXCEPT !.pc = "returned", !.result = Null]]
                 /\ UNCHANGED <<breaker, invoked>>
            ELSE IF FastFail(breaker, time)
            THEN /\ transformCalls' = [transformCalls EXCEPT ![p] =
                                [c EXCEPT !.pc = "returned", !.result = notes]]
                 /\ UNCHANGED <<breaker, invoked>>
            ELSE /\ transformCalls' = [transformCalls EXCEPT ![p] =
                                [c EXCEPT !.pc = "permit"]]
                 /\ breaker' = EnterBreaker(breaker, time)
                 /\ invoked' = invoked + 1
    /\ UNCHANGED <<time, running, lastEvent, limiterVars, cfg, detectVars, loopVars, benchVars, scanVars>>

\* line 50: await this.rateLimiter.waitForPermission()
Permit(p) ==
    /\ transformCalls[p].pc = "permit"
    /\ waitForPermission(p)
    /\ transformCalls' = [transformCalls EXCEPT ![p] =
                            IF MustWait(requestTimestamps, time)
                            THEN [@ EXCEPT !.pc = "permitSleep"]
                            ELSE [@ EXCEPT !.pc = "request", !.permits = @ + 1]]
    /\ UNCHANGED <<time, breakerVars, cfg, detectVars, loopVars, benchVars, scanVars>>

\* the timeout of waitForPermission fires when it is due
PermitGranted(p) ==
    /\ transformCalls[p].pc = "permitSleep"
    /\ time' = IF sleeping[p] > time THEN sleeping[p] ELSE time
    /\ afterTimeout(p, time')
    /\ transformCalls' = [transformCalls EXCEPT ![p].pc = "request",
                                                ![p].permits = @ + 1]
    /\ UNCHANGED <<breakerVars, cfg, detectVars, loopVars, benchVars, scanVars>>

\* lines 54-180: the request is made and answered
Request(p) ==
    /\ transformCalls[p].pc = "request"
    /\ \E outcome \in Outcomes :
        LET c == [transformCalls[p] EXCEPT !.attempts = @ + 1,
                                          !.outcomes = Append(@, outcome)]
        IN  IF outcome \notin {"text", "empty"}
               /\ ShouldRetry(outcome, c.retryCount, cfg.maxRetries)
            THEN \E jitter \in Jitters :
                   LET backoffTime == calculateBackoff(c.retryCount + 1, jitter,
                                                       cfg.initialBackoffMs)
                   IN  /\ transformCalls' = [transformCalls EXCEPT ![p] =
                              [c EXCEPT !.pc = "backoff",
                                        !.retryCount = @ + 1,
                                        !.delays = Append(@, backoffTime),
                                        !.window = requestTimestamps,
                                        !.wakeAt = time + backoffTime]]
                       /\ UNCHANGED breaker
            ELSE /\ breaker' = OperationResolved(breaker)
                 /\ transformCalls' = [transformCalls EXCEPT ![p] =
                        [c EXCEPT !.pc = "returned",
                                  !.result = AttemptValue(c.notes, outcome)]]
    /\ UNCHANGED <<time, running, invoked, lastEvent, limiterVars, cfg, detectVars, loopVars, benchVars,
                   scanVars>>

\* lines 167-174: the backoff timer fires when it is due; after a 429 the
\* limiter is reset
Retry(p) ==
    /\ transformCalls[p].pc = "backoff"
    /\ time' = IF transformCalls[p].wakeAt > time
               THEN transformCalls[p].wakeAt ELSE time
    /\ transformCalls' = [transformCalls EXCEPT ![p].pc = "permit"]
    /\ LET c == transformCalls[p]
       IN  IF c.outcomes[Len(c.outcomes)] = "429"
           THEN resetLimiter
           ELSE UNCHANGED requestTimestamps
    /\ UNCHANGED <<sleeping, grants, lastWait, breakerVars, cfg, detectVars, loopVars, benchVars,
                   scanVars>>

NextTransform ==
    \/ \E p \in TransformCallers : TransformCallerNotes(p)
    \/ \E p \in TransformCallers : Permit(p)
    \/ \E p \in TransformCallers : PermitGranted(p)
    \/ \E p \in TransformCallers : Request(p)
    \/ \E p \in TransformCallers : Retry(p)

SpecTransform == InitTransform /\ [][NextTransform]_vars

\* every wait of the rate limiter and every backoff sleep is finite, and the
\* enrichment request is answered or fails: a step of a call in progress that
\* can be taken is taken
InitTransformFair ==
    /\ InitTransform
    /\ cfg.maxRetries < DefaultMaxRetries

SpecTransformFair == InitTransformFair /\ [][NextTransform]_vars /\ WF_vars(NextTransform)

----------------------------------------------------------------------------
(* Claims about transformCallerNotes, checked under SpecTransform *)

AllRetryable(outcomes, m) == \A i \in 1..m : isRetryableError(outcomes[i])

\* C18: a call that has failed k times in a row with a retryable error, k <=
\* maxRetries, has not given up: it goes on to attempt k+1; and when that
\* attempt succeeds with text the call has been attempted exactly k+1 times and
\* returns the transformed text, not the original input.
C18_RetryBoundary ==
    \A p \in Callers :
        LET c == transformCalls[p]
            n == Len(c.outcomes)
        IN  /\ c.attempts = n
            /\ c.attempts <= cfg.maxRetries + 1
            /\ n >= 1 /\ n <= cfg.maxRetries /\ AllRetryable(c.outcomes, n)
                 => c.pc \in {"backoff", "permit", "permitSleep", "request"}
            /\ n >= 1 /\ c.outcomes[n] = "text" /\ AllRetryable(c.outcomes, n - 1)
                 => /\ c.pc = "returned"
                    /\ c.result = Transformed
                    /\ c.result # c.notes
                    /\ c.retryCount = n - 1

\* three failures with HTTP 500, then success on the fourth attempt, maxRetries = 3
C18_Witness ==
    \E p \in Callers :
        /\ cfg.maxRetries = DefaultMaxRetries
        /\ transformCalls[p].outcomes = <<"500", "500", "500", "text">>
        /\ transformCalls[p].attempts = DefaultMaxRetries + 1
        /\ transformCalls[p].result = Transformed

\* C19 as stated: the delays slept between consecutive attempts of one call
\* strictly increase, whatever the jitter and the configuration.
C19_DelaysStrictlyIncrease ==
    \A p \in Callers :
        LET d == transformCalls[p].delays
        IN  \A i \in 1..(Len(d) - 1) : d[i] < d[i + 1]

\* C19 amended: the delays of one call never decrease, and a delay below the
\* 10000 ms cap is followed by a strictly larger one; with the default
\* configuration (1000 ms, 3 retries) they strictly increase.
C19_DelaysIncreaseUpToCap ==
    \A p \in Callers :
        LET d == transformCalls[p].delays
        IN  /\ \A i \in 1..(Len(d) - 1) :
                 /\ d[i] <= d[i + 1]
                 /\ d[i] < MaxBackoffMs => d[i] < d[i + 1]
            /\ \A i \in 1..Len(d) : d[i] <= MaxBackoffMs
            /\ cfg = DefaultConfig => \A i \in 1..(Len(d) - 1) : d[i] < d[i + 1]

\* a call that has slept three backoffs, the second one cut to the cap
C19_Witness ==
    \E p \in Callers :
        /\ Len(transformCalls[p].delays) = 3
        /\ transformCalls[p].delays[1] < transformCalls[p].delays[2]
        /\ transformCalls[p].delays[2] = MaxBackoffMs

\* C20: a call of transformCallerNotes with notes always resolves with a value,
\* and when its last attempt did not produce text (retries exhausted, error
\* that is not retryable, empty response) or the circuit was open, the value
\* is the original input.
C20_FallsBackToInput ==
    \A p \in Callers :
        LET c == transformCalls[p]
            n == Len(c.outcomes)
        IN  c.pc = "returned" /\ Truthy(c.notes)
              => /\ c.result \in {c.notes, Transformed}
                 /\ n = 0 => c.circuit = "OPEN" /\ c.result = c.notes
                 /\ n >= 1 /\ c.outcomes[n] # "text" => c.result = c.notes
                 /\ n >= 1 /\ c.outcomes[n] = "text" => c.result = Transformed

\* retries exhausted on retryable errors: the call has returned the input
C20_Witness ==
    \E p \in Callers :
        LET c == transformCalls[p]
        IN  /\ c.pc = "returned"
            /\ Len(c.outcomes) = cfg.maxRetries + 1
            /\ AllRetryable(c.outcomes, Len(c.outcomes))
            /\ c.result = c.notes
            /\ Truthy(c.notes)

\* C32: the delay slept before retry number a (a >= 1) is at least
\* min(initialBackoffMs * 2^(a-1), 10000) ms and at most
\* min(1.3 * initialBackoffMs * 2^(a-1), 10000) ms, so never more than 10 s.
C32_BackoffBounds ==
    \A p \in Callers :
        LET d == transformCalls[p].delays
        IN  \A a \in 1..Len(d) :
              LET base == cfg.initialBackoffMs * Pow2(a - 1)
              IN  /\ d[a] >= Min(base, MaxBackoffMs)
                  /\ d[a] <= Min((13 * base) \div 10, MaxBackoffMs)
                  /\ d[a] <= 10000

\* three backoffs with 1000 ms: the first with the largest jitter, the third
\* with none
C32_Witness ==
    \E p \in Callers :
        LET d == transformCalls[p].delays
        IN  /\ cfg.initialBackoffMs = DefaultInitialBackoffMs
            /\ Len(d) = 3
            /\ d[1] > DefaultInitialBackoffMs
            /\ d[1] < (13 * DefaultInitialBackoffMs) \div 10
            /\ d[3] = 4 * DefaultInitialBackoffMs

\* C33: every outbound call is made right after a waitForPermission of its
\* own has completed (the call about to be made holds a permission given at
\* the current time, and the recorded permissions are one per call); the
\* window is untouched while the backoff is slept; after a failure with HTTP
\* 429 the window is empty when the retry asks for permission, so the retry
\* is never suspended by the limiter; after any other retryable failure the
\* window is what it was when the attempt failed.
C33_PermitThenCall ==
    \A p \in TransformCallers :
        LET c == transformCalls[p]
            n == Len(c.outcomes)
            retrying == n >= 1 /\ c.retryCount = n
        IN  /\ c.permits = c.attempts + (IF c.pc = "request" THEN 1 ELSE 0)
            /\ c.pc = "request"
                 => /\ lastWait[p].grantedAt = time
                    /\ requestTimestamps # <<>>
                    /\ requestTimestamps[Len(requestTimestamps)] = time
            /\ c.pc = "backoff"
                 => requestTimestamps = c.window /\ c.window # <<>>
            /\ (c.pc = "permit" /\ retrying /\ c.outcomes[n] = "429")
                 => requestTimestamps = <<>>
            /\ (c.pc = "permitSleep" /\ retrying) => c.outcomes[n] # "429"
            /\ (c.pc = "permit" /\ retrying /\ c.outcomes[n] # "429")
                 => requestTimestamps = c.window

\* the window was full when an attempt failed with HTTP 429, and the retry
\* holds its permission at the very time its backoff ended
C33_Witness ==
    \E p \in TransformCallers :
        LET c == transformCalls[p]
            n == Len(c.outcomes)
        IN  /\ c.pc = "request"
            /\ n >= 2 /\ c.outcomes[n] = "429"
            /\ Len(c.window) >= RequestsPerMinute
            /\ ~lastWait[p].suspended
            /\ time = c.wakeAt
            /\ requestTimestamps = <<time>>

\* a call in progress returns
Terminates ==
    \A p \in TransformCallers :
        (transformCalls[p].pc \notin {"idle", "returned"})
            ~> (transformCalls[p].pc = "returned")

\* the requests of one call are at most maxRetries + 1; an attempt that ends
\* with text, an empty response or an error that is not retryable is the
\* last one; a call without notes has returned null and asked nothing
BoundedCalls ==
    \A p \in TransformCallers :
        LET c == transformCalls[p]
            n == Len(c.outcomes)
        IN  /\ c.attempts = n /\ c.attempts <= cfg.maxRetries + 1
            /\ c.permits <= cfg.maxRetries + 1
            /\ \A i \in 1..n :
                 ~isRetryableError(c.outcomes[i]) => i = n /\ c.pc = "returned"
            /\ (c.pc # "idle" /\ ~Truthy(c.notes))
                 => /\ c.pc = "returned" /\ c.result = Null
                    /\ c.attempts = 0 /\ c.permits = 0

\* the step of a call without notes touches neither limiter nor breaker
EmptyInputStep ==
    \A p \in TransformCallers :
        (transformCalls'[p] # transformCalls[p] /\ ~Truthy(transformCalls'[p].notes))
            => UNCHANGED <<breakerVars, limiterVars>>

\* C38: transformCallerNotes terminates when every limiter wait and backoff
\* sleep is finite; it makes at most maxRetries + 1 requests per invocation;
\* an error that is not retryable or an empty response ends the invocation
\* with that attempt; an empty input returns null with no request and no
\* access to the rate limiter or the circuit breaker.
C38_TerminatesWithBoundedCalls ==
    /\ []BoundedCalls
    /\ [][EmptyInputStep]_vars
    /\ Terminates

\* a retry that failed with an error that is not retryable ended the call
C38_Witness ==
    \E p \in TransformCallers :
        /\ transformCalls[p].outcomes = <<"ETIMEDOUT", "400">>
        /\ transformCalls[p].pc = "returned"
        /\ transformCalls[p].attempts < cfg.maxRetries + 1

\* C39: the operation transformCallerNotes hands to the breaker resolves
\* whatever the enrichment service does, so the breaker stays CLOSED with
\* failureCount 0 and no call is answered by the fail-fast branch: every
\* call that had notes and has returned made at least one request.
C39_BreakerNeverTrips ==
    /\ breaker.state = "CLOSED"
    /\ breaker.failureCount = 0
    /\ breaker.lastFailureTime = 0
    /\ \A p \in TransformCallers :
          LET c == transformCalls[p]
          IN  /\ c.circuit = "CLOSED"
              /\ (c.pc = "returned" /\ Truthy(c.notes)) => c.attempts >= 1

\* a call whose every attempt failed, the last with an error that is not
\* retryable, has returned and the breaker has counted nothing
C39_Witness ==
    \E p \in TransformCallers :
        LET c == transformCalls[p]
        IN  /\ c.pc = "returned"
            /\ c.outcomes = <<"500", "429", "TypeError">>
            /\ c.result = c.notes
            /\ invoked >= 1
            /\ breaker = BreakerInit

----------------------------------------------------------------------------
(* database/services/units: UnitService, called by the scraper for one
   element at a time *)

MaxIdentify == 5

\* what `supabaseClient.from('units').select('unit_id')` can give: the rows,
\* an error in the response, or a rejection
LoadOutcomes == {"data", "error", "throws"}

\* loadKnownUnits: the ids of the registry, or the empty set on any failure
loadKnownUnits(outcome) == IF outcome = "data" THEN KnownUnits ELSE {}

\* variant: an empty set is loaded again
NotCachedOrEmpty(service) == service.isNull \/ service.knownUnits = {}

\* getKnownUnits: `!this.knownUnits`; a Set object is truthy, also when empty
NotCached(service) == service.isNull

\* identifyExternalUnits, lines 80-92: the units split by membership
Classified(units, knownUnitSet) ==
    [knownUnits |-> SelectSeq(units, LAMBDA unit : unit \in knownUnitSet),
     externalUnits |-> SelectSeq(units, LAMBDA unit : unit \notin knownUnitSet)]

\* identifyExternalUnits up to the await in getKnownUnits, or to its end when
\* the set is cached
IdentifyExternalUnits ==
    /\ identify.pc \in {"idle", "returned"}
    /\ identify.n < MaxIdentify
    /\ \E units \in UnitLists :
        LET call == [pc |-> "loading", n |-> identify.n + 1, units |-> units,
                     loadsBefore |-> unitService.loads,
                     knownUnits |-> <<>>, externalUnits |-> <<>>]
        IN  IF NotCached(unitService)
            THEN /\ identify' = call
                 /\ unitService' = [unitService EXCEPT !.loads = @ + 1]
            ELSE /\ identify' = [call EXCEPT
                        !.pc = "returned",
                        !.knownUnits =
                            Classified(units, unitService.knownUnits).knownUnits,
                        !.externalUnits =
                            Classified(units, unitService.knownUnits).externalUnits]
                 /\ UNCHANGED unitService
    /\ UNCHANGED <<domVars, detectVars, loopVars, scanVars, svcVars>>

\* the registry query is answered: knownUnits is set and the call returns
LoadKnownUnits ==
    /\ identify.pc = "loading"
    /\ \E outcome \in LoadOutcomes :
        LET knownUnitSet == loadKnownUnits(outcome)
        IN  /\ unitService' = [unitService EXCEPT !.isNull = FALSE,
                                                   !.knownUnits = knownUnitSet,
                                                   !.outcome = outcome]
            /\ identify' = [identify EXCEPT
                    !.pc = "returned",
                    !.knownUnits = Classified(identify.units, knownUnitSet).knownUnits,
                    !.externalUnits =
                        Classified(identify.units, knownUnitSet).externalUnits]
    /\ UNCHANGED <<domVars, detectVars, loopVars, scanVars, svcVars>>

NextUnits == IdentifyExternalUnits \/ LoadKnownUnits

SpecUnits == Init /\ [][NextUnits]_vars

\* C35: one UnitService queries the registry at most once over the run;
\* every identifyExternalUnits call after the first returns without a query,
\* classifying by the set the first call stored, also when that load failed
\* and stored the empty set: every unit is then external.
C35_RegistryLoadedOnce ==
    /\ unitService.loads <= 1
    /\ ~unitService.isNull => unitService.loads = 1
    /\ identify.n >= 2
         => /\ identify.pc = "returned"
            /\ identify.loadsBefore = 1
            /\ unitService.loads = 1
    /\ identify.pc = "returned"
         => /\ unitService.knownUnits
                  = (IF unitService.outcome = "data" THEN KnownUnits ELSE {})
            /\ \A i \in 1..Len(identify.externalUnits) :
                  identify.externalUnits[i] \notin unitService.knownUnits
            /\ \A i \in 1..Len(identify.knownUnits) :
                  identify.knownUnits[i] \in unitService.knownUnits
            /\ Len(identify.knownUnits) + Len(identify.externalUnits)
                  = Len(identify.units)
            /\ unitService.knownUnits = {}
                  => identify.externalUnits = identify.units

\* the first load failed; a later call has classified the registered unit E1
\* as external without another query
C35_Witness ==
    /\ identify.pc = "returned" /\ identify.n >= 2
    /\ unitService.outcome = "error" /\ unitService.knownUnits = {}
    /\ unitService.loads = 1
    /\ identify.units = <<"E1", "L2">>
    /\ identify.externalUnits = <<"E1", "L2">>
    /\ "E1" \in KnownUnits

----------------------------------------------------------------------------
(* scraper/alarmScraper.ts: extractUnitsFromDOM.  The text of a line is a
   sequence of pieces: ":" is the colon, " " is white space, every other
   piece is text without colon and without white space at its ends *)

MaxLines == 2

\* variant: 'Occupant' is not a status indicator
knownStatusIndicatorsShort == {"Received", "Call Type"}

knownStatusIndicators == {"Received", "Call Type", "Occupant"}

\* text.indexOf(':'), counted in pieces from 0; -1 without a colon
indexOfColon(text) ==
    IF \E i \in 1..Len(text) : text[i] = ":"
    THEN (CHOOSE i \in 1..Len(text) :
             /\ text[i] = ":"
             /\ \A j \in 1..(i - 1) : text[j] # ":") - 1
    ELSE -1

\* text.substring(from, to) and text.substring(from)
substring(text, from, to) == SubSeq(text, from + 1, to)

RECURSIVE trimStart(_)
trimStart(text) ==
    IF text # <<>> /\ Head(text) = " " THEN trimStart(Tail(text)) ELSE text

RECURSIVE trimEnd(_)
trimEnd(text) ==
    IF text # <<>> /\ text[Len(text)] = " "
    THEN trimEnd(SubSeq(text, 1, Len(text) - 1))
    ELSE text

\* String.prototype.trim
trim(text) == trimEnd(trimStart(text))

\* the string the pieces spell
RECURSIVE AsString(_)
AsString(text) == IF text = <<>> THEN "" ELSE Head(text) \o AsString(Tail(text))

\* remainingText.includes(marker)
includes(text, marker) == \E i \in 1..Len(text) : text[i] = marker

\* the body of the for loop, lines 26-49: units after this line
UnitsAfterLine(units, text) ==
    LET colonIndex == indexOfColon(text)
        identifier == AsString(trim(substring(text, 0, colonIndex)))
        remainingText == substring(text, colonIndex + 1, Len(text))
    IN  IF colonIndex > 0
        THEN IF identifier \in knownStatusIndicators
             THEN units
             ELSE IF \/ includes(remainingText, "AR-")
                     \/ includes(remainingText, "EN-")
                     \/ includes(remainingText, "OS-")
                     \/ includes(remainingText, "RE-")
                     \/ includes(remainingText, "Disp-")
                  THEN Append(units, identifier)
                  ELSE units
        ELSE units

RECURSIVE UnitsFrom(_, _)
UnitsFrom(units, descElements) ==
    IF descElements = <<>> THEN units
    ELSE UnitsFrom(UnitsAfterLine(units, Head(descElements)), Tail(descElements))

extractUnitsFromDOM(descElements) == UnitsFrom(<<>>, descElements)

\* the lines of an element of the dispatch page: a label, or none, then
\* nothing or a colon and the rest
LineLabels ==
    { <<>>, <<"E1">>, <<" ", "E1", " ">>, <<"L2">>, <<"Received">>,
      <<"Call Type">>, <<" ", "Occupant">>, <<"Received", " ", "by">> }

LineRests ==
    { <<>>, <<":", " ", "x">>, <<":", " ", "AR-", "10", ":", "05">>,
      <<":", "x", ":", "OS-">>, <<":", "RE-">>, <<":", "EN-">>,
      <<":", " ", "Disp-", "10", ":", "01", " ", "EN-", "10", ":", "02">> }

LineTexts == {label \o rest : label \in LineLabels, rest \in LineRests}

InitDom ==
    /\ ScanInit /\ ServiceInit /\ MainInit /\ UnitInit
    /\ cfg = DefaultConfig
    /\ dArgs = <<>> /\ dResult = NoResult
    /\ domLines \in UNION {[1..n -> LineTexts] : n \in 0..MaxLines}
    /\ domUnits = NoUnits

ExtractUnitsFromDOM ==
    /\ domUnits = NoUnits
    /\ domUnits' = extractUnitsFromDOM(domLines)
    /\ UNCHANGED <<domLines, unitVars, detectVars, loopVars, scanVars, svcVars>>

NextDom == ExtractUnitsFromDOM

SpecDom == InitDom /\ [][NextDom]_vars

\* the line has a colon that is not its first character, its trimmed label
\* is no status indicator, and a marker follows the first colon
IsUnitLine(text) ==
    \E i \in 2..Len(text) :
        /\ text[i] = ":"
        /\ \A j \in 1..(i - 1) : text[j] # ":"
        /\ AsString(trim(SubSeq(text, 1, i - 1)))
              \notin {"Received", "Call Type", "Occupant"}
        /\ \E k \in (i + 1)..Len(text) :
              text[k] \in {"AR-", "EN-", "OS-", "RE-", "Disp-"}

\* the trimmed text before the first colon
LabelOf(text) ==
    LET i == CHOOSE i \in 1..Len(text) :
                 text[i] = ":" /\ \A j \in 1..(i - 1) : text[j] # ":"
    IN  AsString(trim(SubSeq(text, 1, i - 1)))

\* C37: the result of extractUnitsFromDOM has one entry for every line that
\* has a colon at index > 0, a trimmed label other than 'Received', 'Call
\* Type', 'Occupant', and one of the markers 'AR-', 'EN-', 'OS-', 'RE-',
\* 'Disp-' after the colon, and no other entry; the entries are the labels
\* of these lines, in line order, a repeated label repeated.
C37_UnitLinesInOrder ==
    domUnits # NoUnits
      => LET unitLines == {i \in 1..Len(domLines) : IsUnitLine(domLines[i])}
             Rank(i) == Cardinality({j \in unitLines : j <= i})
         IN  /\ Len(domUnits) = Cardinality(unitLines)
             /\ \A i \in unitLines : domUnits[Rank(i)] = LabelOf(domLines[i])

\* two different lines with the label E1, one of them padded with blanks:
\* E1 is returned twice
C37_Witness ==
    /\ domUnits = <<"E1", "E1">>
    /\ Len(domLines) = 2
    /\ domLines[1] # domLines[2]
    /\ Head(domLines[1]) = " "

====
